---------------------------- MODULE Spec2Model ----------------------------
(***************************************************************************)
(* Galaksio quote engine: provider adapters, the quote engine              *)
(* (get_*_quotes, compare_*, get_best_offer) and the HTTP service layers   *)
(* that call it.                                                           *)
(*                                                                         *)
(* Conventions of the model                                                *)
(*  - A Python Optional is a sequence: None is <<>>, a present value x is  *)
(*    <<x>>.  A Python dict is a record; d.get(k, default) is Get.         *)
(*  - Money is fixed point.  price_usd is held in units of 1/UsdScale USD  *)
(*    (UsdScale = 10^4), an x402 maxAmountRequired in the asset's smallest *)
(*    unit (10^-6), an Arweave price in units of 10^6 winston.             *)
(*  - One action is one whole call of a public operation.  The answers of  *)
(*    the upstream services for that call are an input of the action       *)
(*    (variable up; again for the upstreams that one request probes a      *)
(*    second time); calls is the list of upstream requests it issued.      *)
(*  - pc is the position of the caller: idle, or done once the call has    *)
(*    ended.  A second specification, SilentSpec, runs an engine call      *)
(*    request by request (running, waiting for an upstream) to follow what *)
(*    happens when an upstream never answers.                              *)
(*  - cli holds the local variables of a command of the command line       *)
(*    client, which a third specification, CliSpec, runs await by await.   *)
(*  - A call ends in a returned value or in a raised exception; every      *)
(*    operator that models code returns [exc, ret, calls].                 *)
(*  - Quote.timestamp and Quote.metadata are not modelled: the engine      *)
(*    never reads them.                                                    *)
(***************************************************************************)
EXTENDS Integers, Sequences, FiniteSets, TLC

VARIABLES compute_providers, storage_providers, cache_providers, cache,
          op, args, up, again, calls, result, pc, cli

vars == <<compute_providers, storage_providers, cache_providers, cache,
          op, args, up, again, calls, result, pc, cli>>

engine == <<compute_providers, storage_providers, cache_providers, cache>>

-----------------------------------------------------------------------------
(* Bounds *)

\* prices quoted by x402 upstreams: multiples of AmountStep, 0..MaxPriceLevel
MaxPriceLevel == 2
\* Arweave prices: multiples of WinstonStep, 1..MaxWinstonLevel
MaxWinstonLevel == 2
\* AR/USD rates of the price feed: multiples of RateStep, 1..MaxRateLevel
MaxRateLevel == 2
\* requested storage sizes in GB: 1..MaxSizeGb
MaxSizeGb == 1
\* file sizes in bytes: the ceiling of openx402 plus or minus MaxSizeDelta
MaxSizeDelta == 1

AmountStep == 5000
WinstonStep == 2500
RateStep == 2

-----------------------------------------------------------------------------
(* Python values *)

None == <<>>
Some(x) == <<x>>

Has(d, k) == k \in DOMAIN d
Get(d, k, default) == IF k \in DOMAIN d THEN d[k] ELSE default
\* d.get(k), as an Optional
DictGet(d, k) == IF k \in DOMAIN d THEN Some(d[k]) ELSE None

\* every item counts as a member
InList_Always(x, s) == TRUE

\* the "in" operator on a list
InList(x, s) == \E i \in 1..Len(s) : s[i] = x

\* outcome of a call: a returned value or a raised exception, and the
\* upstream requests issued on the way
Return(v, c) == [exc |-> None, ret |-> v, calls |-> c]
Raise(e, c) == [exc |-> Some(e), ret |-> None, calls |-> c]

\* the value of a singleton set. The({e : x \in {v}}) is e with the local
\* variable x assigned v: v is evaluated once, however often e reads x
The(S) == CHOOSE y \in S : TRUE

\* fixed point: price_usd is counted in 1/UsdScale USD
UsdScale == 10000
\* an x402 amount has 6 decimals (amount / 1e6)
UsdcDecimalsDivisor == 1000000
\* 1 AR = 1e12 winston; the model counts winston in units of 10^6
WinstonUnitsPerAr == 1000000


-----------------------------------------------------------------------------
(* Answers of the upstream services (the inputs of one call) *)

EmptyDict == [k \in {} |-> 0]

Amounts == {AmountStep * k : k \in 0..MaxPriceLevel}
Winstons == {WinstonStep * k : k \in 1..MaxWinstonLevel}
Rates == {RateStep * k : k \in 1..MaxRateLevel}
AkashPrices == {(a * UsdScale) \div UsdcDecimalsDivisor : a \in Amounts}

\* "reqexc": requests raised a RequestException (connection error, timeout,
\* HTTP error status turned into an exception by raise_for_status)
ReqExc == [t |-> "reqexc"]

\* Akash pricing API: a JSON object (with or without the key "akash", or
\* empty) or a JSON array
AkashAnswers ==
    {ReqExc}
    \cup {[t |-> "json", body |-> [json |-> "array", len |-> 1]]}
    \cup {[t |-> "json", body |-> [json |-> "object", fields |-> EmptyDict]]}
    \cup {[t |-> "json", body |-> [json |-> "object", fields |-> [aws |-> Some(UsdScale)]]]}
    \cup {[t |-> "json", body |-> [json |-> "object",
                                   fields |-> [akash |-> Some(p), aws |-> Some(UsdScale)]]]
             : p \in AkashPrices}

\* Arweave price endpoint: a text body that is an integer (winston) or not
ArweaveAnswers ==
    {ReqExc}
    \cup {[t |-> "text", body |-> None]}
    \cup {[t |-> "text", body |-> Some(w)] : w \in Winstons}

\* Coingecko price feed: arweave.usd is missing, zero or a rate
CoingeckoAnswers ==
    {ReqExc}
    \cup {[t |-> "json", usd |-> None]}
    \cup {[t |-> "json", usd |-> Some(r)] : r \in Rates \cup {0}}

\* an entry of "accepts" that names the asset, the network and the recipient
FullEntry ==
    [scheme |-> "exact", maxAmountRequired |-> AmountStep,
     asset |-> "USDC", network |-> "base", payTo |-> "0xA"]

\* one entry of the "accepts" list of a 402 body
AcceptsEntries ==
    {[scheme |-> "exact"]}
    \cup {[scheme |-> "exact", maxAmountRequired |-> a] : a \in Amounts}
    \cup {FullEntry}

\* the payment headers of a response: none, the asset only, or all three
PaymentHeaders ==
    {EmptyDict, [asset |-> "DAI"], [asset |-> "DAI", network |-> "solana", payTo |-> "0xB"]}

\* an HTTP response to an x402 probe: status, the headers asset / network /
\* payTo, the JSON body (None: the body is not JSON; a dict with or without
\* "accepts")
X402Responses ==
    {[t |-> "resp", status |-> s, headers |-> EmptyDict, body |-> None]
        : s \in {200, 500, 402}}
    \cup {[t |-> "resp", status |-> 402, headers |-> EmptyDict,
           body |-> Some([accepts |-> <<>>])]}
    \cup {[t |-> "resp", status |-> 402, headers |-> EmptyDict,
           body |-> Some([accepts |-> <<e>>])] : e \in AcceptsEntries}
    \cup {[t |-> "resp", status |-> 402, headers |-> h,
           body |-> Some([accepts |-> <<FullEntry>>])] : h \in PaymentHeaders}
    \cup {[t |-> "resp", status |-> 402, headers |-> [asset |-> "USDC"],
           body |-> Some([accepts |-> <<[scheme |-> "exact", maxAmountRequired |-> AmountStep]>>])]}

X402Answers == {ReqExc} \cup X402Responses

\* the "extra" field of the challenge of Galaksio Storage: empty, or with the
\* total price priceUSD (in 1/UsdScale USD), which may be 0
Extras ==
    {EmptyDict}
    \cup {[dynamicPricing |-> TRUE, priceUSD |-> (a * UsdScale) \div UsdcDecimalsDivisor]
             : a \in Amounts}

\* the answers of Galaksio Storage: those of any x402 upstream, and challenges
\* that carry "extra"
GalaksioAnswers ==
    X402Answers
    \cup {[t |-> "resp", status |-> 402, headers |-> EmptyDict,
           body |-> Some([accepts |-> <<[scheme |-> "exact",
                                         maxAmountRequired |-> AmountStep,
                                         extra |-> e]>>])] : e \in Extras}

UpstreamNames == {"akash", "arweave", "coingecko", "pinata", "xcache",
                  "openx402", "galaksio_storage", "merit"}

\* One round of answers u gives each upstream's answer to the one request that
\* an engine operation can send it.  An upstream that the operation cannot
\* reach is down in u.
Unreached == [n \in UpstreamNames |-> ReqExc]

\* number of requests to upstream name in the request log
Count(name, log) == Cardinality({i \in 1..Len(log) : log[i] = name})

\* the answers of round u that the requests of log consumed (None: not asked)
Asked(u, log) == [n \in UpstreamNames |-> IF InList(n, log) THEN Some(u[n]) ELSE None]

\* no request was sent
NotAsked == [n \in UpstreamNames |-> None]

\* a round of answers that agrees with the consumed answers of round a
Replay(a) == [n \in UpstreamNames |-> IF a[n] = None THEN ReqExc ELSE a[n][1]]

-----------------------------------------------------------------------------
(* Provider adapters *)

\* an amount read with five decimals
AmountToUsd_FiveDecimals(amount) == (amount * UsdScale) \div 100000

\* a request that is sent again
requests_post_Twice(name) == <<name, name>>

\* requests.get / requests.post: one request to the upstream, as an entry of
\* the request log
requests_post(name) == <<name>>

\* x402 amount (6 decimals) to price_usd
AmountToUsd(amount) == (amount * UsdScale) \div UsdcDecimalsDivisor

\* Python truthiness of an Optional JSON value
Falsy(r) ==
    \/ r = None
    \/ r[1].json = "object" /\ DOMAIN r[1].fields = {}
    \/ r[1].json = "array" /\ r[1].len = 0

get_akash_pricing(cpu_cores, memory_gb, storage_gb, u) ==
    LET a == u.akash
        log == requests_post("akash")
    IN  IF a.t = "reqexc" THEN Return(None, log)
        ELSE Return(Some(a.body), log)

get_arweave_pricing(storage_gb, u) ==
    LET a == u.arweave
        log1 == requests_post("arweave")
    IN  IF a.t = "reqexc" THEN Return(None, log1)
        ELSE IF a.body = None THEN Raise("ValueError", log1)
        ELSE LET price_winston == a.body[1]
                 cg == u.coingecko
                 log2 == log1 \o requests_post("coingecko")
             IN  IF cg.t = "reqexc" THEN Return(None, log2)
                 ELSE LET cg_price == IF cg.usd = None THEN 0 ELSE cg.usd[1]
                          price_usd ==
                              IF cg_price # 0
                              THEN Some((price_winston * cg_price * UsdScale)
                                            \div WinstonUnitsPerAr)
                              ELSE None
                      IN  Return(Some([storage_gb |-> storage_gb,
                                       price_winston |-> price_winston,
                                       price_usd |-> price_usd]), log2)

get_pinata_storage_quote(file_size, u) ==
    LET a == u.pinata
        log == requests_post("pinata")
        failed == Return(Some([error |-> "exception"]), log)
    IN  IF a.t = "reqexc" THEN failed
        ELSE IF a.status = 402
        THEN IF a.body = None THEN failed
             ELSE IF ~Has(a.body[1], "accepts") THEN failed
             ELSE IF Len(a.body[1].accepts) = 0 THEN failed
             ELSE LET data == a.body[1].accepts[1]
                      amount == Get(data, "maxAmountRequired", 0)
                  IN  Return(Some([file_size |-> file_size,
                                   amount |-> amount,
                                   currency |-> DictGet(a.headers, "asset"),
                                   price_usd |-> Some(AmountToUsd(amount))]), log)
        ELSE IF a.status < 400
        THEN Return(Some([note |-> "Request succeeded without payment"]), log)
        ELSE Return(Some([error |-> "Unexpected status"]), log)

\* every status from 400 on counts as a payment challenge
payment_required_ClientError(status_code) == status_code >= 400

\* "resp.status_code == 402"
payment_required(status_code) == status_code = 402

\* the value of the accepts entry, whatever the headers say
header_or_AcceptsFirst(headers, accepts, k) ==
    IF Has(accepts, k) THEN Some(accepts[k]) ELSE DictGet(headers, k)

\* "headers.get(k) or accepts.get(k)"
header_or(headers, accepts, k) ==
    IF Has(headers, k) THEN Some(headers[k]) ELSE DictGet(accepts, k)

\* the url of the probe is given by the name of the upstream
get_x402_quote(name, u) ==
    LET a == u[name]
        log == requests_post(name)
    IN  IF a.t = "reqexc" THEN Return(None, log)
        ELSE IF payment_required(a.status)
        THEN IF a.body = None THEN Return(None, log)
             ELSE LET data == a.body[1]
                      lst == Get(data, "accepts", <<EmptyDict>>)
                  IN  IF Len(lst) = 0 THEN Return(None, log)
                      ELSE LET accepts == lst[1]
                               amount == Get(accepts, "maxAmountRequired", 0)
                           IN  Return(Some(
                                   [price_usd |-> Some(AmountToUsd(amount)),
                                    currency |-> header_or(a.headers, accepts, "asset"),
                                    network |-> header_or(a.headers, accepts, "network"),
                                    recipient |-> header_or(a.headers, accepts, "payTo"),
                                    metadata |-> [status_code |-> 402,
                                                  response |-> data]]), log)
        ELSE Return(Some([price_usd |-> Some(0),
                          free |-> TRUE,
                          metadata |-> [status_code |-> a.status,
                                        note |-> "No payment required"]]), log)

\* d with d[k] = v (quote['provider'] = ...)
Put(d, k, v) == [x \in DOMAIN d \cup {k} |-> IF x = k THEN v ELSE d[x]]

get_xcache_create_quote(region, u) ==
    LET r == get_x402_quote("xcache", u)
    IN  IF r.ret # None
        THEN Return(Some(Put(Put(r.ret[1], "provider", "xcache"), "region", region)),
                    r.calls)
        ELSE Return(Some([error |-> "Failed to get quote from xCache"]), r.calls)

-----------------------------------------------------------------------------
(* Quote engine *)

\* a quote that is filed under a combined category
Quote_CombinedCategory(provider, category, price_usd, currency, billing_period) ==
    [provider |-> provider, category |-> "hybrid", price_usd |-> price_usd,
     currency |-> currency, billing_period |-> billing_period]

Quote(provider, category, price_usd, currency, billing_period) ==
    [provider |-> provider, category |-> category, price_usd |-> price_usd,
     currency |-> currency, billing_period |-> billing_period]

ComputeSpec(cpu_cores, memory_gb, storage_gb) ==
    [cpu_cores |-> cpu_cores, memory_gb |-> memory_gb, storage_gb |-> storage_gb]

StorageSpec(size_gb, permanent) == [size_gb |-> size_gb, permanent |-> permanent]

CacheSpec(size_mb, operation) == [size_mb |-> size_mb, operation |-> operation]

_get_akash_compute(spec, u) ==
    LET r == get_akash_pricing(spec.cpu_cores, spec.memory_gb, spec.storage_gb, u)
    IN  IF Falsy(r.ret) THEN Return(None, r.calls)
        ELSE IF r.ret[1].json # "object" THEN Raise("AttributeError", r.calls)
        ELSE Return(Some(Quote("akash", "compute",
                               Get(r.ret[1].fields, "akash", Some(0)),
                               Some("USD"), "month")), r.calls)

get_compute_quotes(spec, providers, u) ==
    LET provs == IF providers = None THEN <<"akash", "aws", "gcp", "azure">>
                 ELSE providers[1]
    IN  IF InList("akash", provs)
        THEN LET r == _get_akash_compute(spec, u)
             IN  IF r.exc # None THEN r
                 ELSE Return(IF r.ret # None THEN <<r.ret[1]>> ELSE <<>>, r.calls)
        ELSE Return(<<>>, <<>>)

_get_arweave_storage(spec, u) ==
    LET r == get_arweave_pricing(spec.size_gb, u)
    IN  IF r.exc # None THEN r
        ELSE IF r.ret = None THEN Return(None, r.calls)
        ELSE Return(Some(Quote("arweave", "storage",
                               Get(r.ret[1], "price_usd", Some(0)),
                               Some("AR"), "one-time")), r.calls)

_get_pinata_storage(spec, u) ==
    LET r == get_pinata_storage_quote(spec.size_gb, u)
    IN  IF r.ret = None \/ Has(r.ret[1], "error") THEN Return(None, r.calls)
        ELSE Return(Some(Quote("pinata", "storage",
                               Get(r.ret[1], "price_usd", Some(0)),
                               Get(r.ret[1], "currency", Some("USDC")),
                               "one-time")), r.calls)

\* the guard of the arweave branch, without the permanent flag
arweave_requested_AnyStorage(provs, spec) == InList("arweave", provs)

\* "arweave" in providers and spec.permanent
arweave_requested(provs, spec) == InList("arweave", provs) /\ spec.permanent

get_storage_quotes(spec, providers, u) ==
    LET provs == IF providers = None THEN <<"arweave", "pinata", "filecoin">>
                 ELSE providers[1]
        ar == IF arweave_requested(provs, spec)
              THEN _get_arweave_storage(spec, u)
              ELSE Return(None, <<>>)
    IN  IF ar.exc # None THEN ar
        ELSE LET q1 == IF ar.ret # None THEN <<ar.ret[1]>> ELSE <<>>
                 pi == IF InList("pinata", provs)
                       THEN _get_pinata_storage(spec, u)
                       ELSE Return(None, <<>>)
             IN  Return(IF pi.ret # None THEN Append(q1, pi.ret[1]) ELSE q1,
                        ar.calls \o pi.calls)

\* every operation is served
xcache_serves_AnyOperation(spec) == TRUE

\* only 'create' is supported through Galaksio
xcache_serves(spec) == spec.operation = "create"

_get_xcache_cache(spec, u) ==
    IF ~xcache_serves(spec) THEN Return(None, <<>>)
    ELSE LET r == get_xcache_create_quote("us-east-1", u)
         IN  IF r.ret = None \/ Has(r.ret[1], "error") THEN Return(None, r.calls)
             ELSE Return(Some(Quote("xcache", "cache",
                                    Get(r.ret[1], "price_usd", Some(0)),
                                    Get(r.ret[1], "currency", Some("USDC")),
                                    "one-time")), r.calls)

get_cache_quotes(spec, providers, u) ==
    LET provs == IF providers = None THEN <<"xcache">> ELSE providers[1]
    IN  IF InList("xcache", provs)
        THEN LET r == _get_xcache_cache(spec, u)
             IN  Return(IF r.ret # None THEN <<r.ret[1]>> ELSE <<>>, r.calls)
        ELSE Return(<<>>, <<>>)

\* Python compares the keys of a sort or of min with "<": with two or more
\* items, a None key raises TypeError
Comparable(quotes) ==
    Len(quotes) < 2 \/ \A i \in 1..Len(quotes) : quotes[i].price_usd # None

\* an unstable sort: q goes before the items of the same key
InsertSorted_Unstable(sorted_quotes, q) ==
    LET n == Cardinality({i \in 1..Len(sorted_quotes) :
                             sorted_quotes[i].price_usd[1] < q.price_usd[1]})
    IN  SubSeq(sorted_quotes, 1, n) \o <<q>>
            \o SubSeq(sorted_quotes, n + 1, Len(sorted_quotes))

\* q goes after every item whose key is not greater: the sort is stable
InsertSorted(sorted_quotes, q) ==
    LET n == Cardinality({i \in 1..Len(sorted_quotes) :
                             sorted_quotes[i].price_usd[1] <= q.price_usd[1]})
    IN  SubSeq(sorted_quotes, 1, n) \o <<q>>
            \o SubSeq(sorted_quotes, n + 1, Len(sorted_quotes))

RECURSIVE SortedFrom(_, _)
SortedFrom(done, rest) ==
    IF rest = <<>> THEN done
    ELSE SortedFrom(InsertSorted(done, Head(rest)), Tail(rest))

\* no sort at all: the quotes as they were appended
sorted_AsAppended(quotes) == quotes

\* sorted(quotes, key=lambda q: q.price_usd), for comparable quotes
sorted(quotes) == IF Len(quotes) < 2 THEN quotes ELSE SortedFrom(<<>>, quotes)

RECURSIVE MinFrom(_, _)
MinFrom(best, rest) ==
    IF rest = <<>> THEN best
    ELSE MinFrom(IF Head(rest).price_usd[1] < best.price_usd[1] THEN Head(rest) ELSE best,
                 Tail(rest))

\* min(quotes, key=lambda q: q.price_usd), for comparable non-empty quotes
min(quotes) == IF Len(quotes) < 2 THEN quotes[1] ELSE MinFrom(Head(quotes), Tail(quotes))

\* a single quote counts as none
no_quotes_OffByOne(quotes) == Len(quotes) <= 1

\* "if not quotes"
no_quotes(quotes) == Len(quotes) = 0

\* the tail of compare_compute / compare_storage / compare_cache: quotes is
\* the outcome of get_*_quotes
Comparison(spec, quotes) ==
    The({ IF g.exc # None THEN g
          ELSE IF no_quotes(g.ret)
          THEN Return([error |-> "No quotes available"], g.calls)
          ELSE IF ~Comparable(g.ret) THEN Raise("TypeError", g.calls)
          ELSE The({ Return([spec |-> spec,
                             quotes |-> sorted_quotes,
                             best_offer |-> sorted_quotes[1],
                             total_providers |-> Len(sorted_quotes)], g.calls)
                     : sorted_quotes \in {sorted(g.ret)} })
          : g \in {quotes} })

compare_compute(spec, u) == Comparison(spec, get_compute_quotes(spec, None, u))

compare_storage(spec, u) == Comparison(spec, get_storage_quotes(spec, None, u))

compare_cache(spec, u) == Comparison(spec, get_cache_quotes(spec, None, u))

\* all_quotes of get_best_offer once the three lists are collected
BestOf(all_quotes, log) ==
    IF Len(all_quotes) = 0 THEN Return(None, log)
    ELSE IF ~Comparable(all_quotes) THEN Raise("TypeError", log)
    ELSE Return(Some(min(all_quotes)), log)

get_best_offer(compute_spec, storage_spec, cache_spec, u) ==
    The({ IF c.exc # None THEN c
          ELSE IF s.exc # None THEN Raise(s.exc[1], c.calls \o s.calls)
          ELSE BestOf(c.ret \o s.ret \o k.ret, c.calls \o s.calls \o k.calls)
          : c \in {IF compute_spec # None
                   THEN get_compute_quotes(compute_spec[1], None, u)
                   ELSE Return(<<>>, <<>>)},
            s \in {IF storage_spec # None
                   THEN get_storage_quotes(storage_spec[1], None, u)
                   ELSE Return(<<>>, <<>>)},
            k \in {IF cache_spec # None
                   THEN get_cache_quotes(cache_spec[1], None, u)
                   ELSE Return(<<>>, <<>>)} })

-----------------------------------------------------------------------------
(* Export of a comparison *)

\* A value that json can write, tagged with its JSON type.  An object keeps
\* its keys in insertion order, as a Python dict does.
JNull == [t |-> "null"]
JNum(n) == [t |-> "num", n |-> n]
JStr(s) == [t |-> "str", s |-> s]
JBool(b) == [t |-> IF b THEN "true" ELSE "false"]
JArr(items) == [t |-> "arr", items |-> items]
JObj(keys, fields) == [t |-> "obj", keys |-> keys, fields |-> fields]

\* asdict(q) of a Quote
QuoteJson(q) ==
    JObj(<<"provider", "category", "price_usd", "currency", "billing_period">>,
         [provider |-> JStr(q.provider),
          category |-> JStr(q.category),
          price_usd |-> IF q.price_usd = None THEN JNull ELSE JNum(q.price_usd[1]),
          currency |-> IF q.currency = None THEN JNull ELSE JStr(q.currency[1]),
          billing_period |-> JStr(q.billing_period)])

\* asdict(spec) of a ComputeSpec, a StorageSpec or a CacheSpec
SpecJson(spec) ==
    IF Has(spec, "cpu_cores")
    THEN JObj(<<"cpu_cores", "memory_gb", "storage_gb">>,
              [cpu_cores |-> JNum(spec.cpu_cores), memory_gb |-> JNum(spec.memory_gb),
               storage_gb |-> JNum(spec.storage_gb)])
    ELSE IF Has(spec, "size_gb")
    THEN JObj(<<"size_gb", "permanent">>,
              [size_gb |-> JNum(spec.size_gb), permanent |-> JBool(spec.permanent)])
    ELSE JObj(<<"size_mb", "operation">>,
              [size_mb |-> JNum(spec.size_mb), operation |-> JStr(spec.operation)])

\* the items of a list in reverse
ListJson_Reversed(quotes) ==
    JArr([i \in 1..Len(quotes) |-> QuoteJson(quotes[Len(quotes) + 1 - i])])

\* "[asdict(q) for q in sorted_quotes]"
ListJson(quotes) == JArr([i \in 1..Len(quotes) |-> QuoteJson(quotes[i])])

\* the dict that compare_* returns
ComparisonJson(comparison) ==
    IF Has(comparison, "error")
    THEN JObj(<<"error">>, [error |-> JStr(comparison.error)])
    ELSE JObj(<<"spec", "quotes", "best_offer", "total_providers">>,
              [spec |-> SpecJson(comparison.spec),
               quotes |-> ListJson(comparison.quotes),
               best_offer |-> QuoteJson(comparison.best_offer),
               total_providers |-> JNum(comparison.total_providers)])

RECURSIVE Flatten(_)
Flatten(seqs) == IF seqs = <<>> THEN <<>> ELSE Head(seqs) \o Flatten(Tail(seqs))

\* json.dumps: the text as a sequence of tokens (brackets, keys, scalars)
RECURSIVE json_dumps(_)
json_dumps(v) ==
    CASE v.t = "arr" ->
             <<[t |-> "["]>>
                 \o Flatten([i \in 1..Len(v.items) |-> json_dumps(v.items[i])])
                 \o <<[t |-> "]"]>>
      [] v.t = "obj" ->
             <<[t |-> "{"]>>
                 \o Flatten([i \in 1..Len(v.keys) |->
                                <<[t |-> "key", s |-> v.keys[i]]>>
                                    \o json_dumps(v.fields[v.keys[i]])])
                 \o <<[t |-> "}"]>>
      [] OTHER -> <<v>>

\* "${price:.2f}": the price in cents, rounded
TwoDecimals(price_usd) == (price_usd * 100 + UsdScale \div 2) \div UsdScale

\* the table of _format_markdown; formatting a price of None raises
_format_markdown(comparison) ==
    IF Has(comparison, "quotes")
           /\ \E i \in 1..Len(comparison.quotes) : comparison.quotes[i].price_usd = None
    THEN Raise("TypeError", <<>>)
    ELSE Return([title |-> "# Cloud Pricing Comparison",
                 specification |-> DictGet(comparison, "spec"),
                 rows |-> IF Has(comparison, "quotes")
                          THEN [i \in 1..Len(comparison.quotes) |->
                                   [provider |-> comparison.quotes[i].provider,
                                    price |-> TwoDecimals(comparison.quotes[i].price_usd[1]),
                                    period |-> comparison.quotes[i].billing_period]]
                          ELSE <<>>], <<>>)

export_comparison(comparison, format) ==
    IF format = "json" THEN Return(json_dumps(ComparisonJson(comparison)), <<>>)
    ELSE IF format = "markdown" THEN _format_markdown(comparison)
    ELSE Return([str |-> comparison], <<>>)

-----------------------------------------------------------------------------
(* Adapters of the broker API *)

\* quote[k] = v for every key k of e
Update(d, e) == [x \in DOMAIN d \cup DOMAIN e |-> IF x \in DOMAIN e THEN e[x] ELSE d[x]]

OPENX402_MAX_FILE_SIZE_MB == 100
\* bytes per MB in the ceiling ("1_000_000")
BytesPerMb == 1000000
OPENX402_MAX_FILE_SIZE_BYTES == OPENX402_MAX_FILE_SIZE_MB * BytesPerMb

\* a size test that also rejects the ceiling itself
too_large_Inclusive(file_size_bytes) == file_size_bytes >= OPENX402_MAX_FILE_SIZE_BYTES

\* "file_size_bytes > OPENX402_MAX_FILE_SIZE_BYTES"
too_large(file_size_bytes) == file_size_bytes > OPENX402_MAX_FILE_SIZE_BYTES

\* The rounded sizes in MB (file_size_mb, and the figure in the error text)
\* are not modelled.
get_openx402_storage_quote(file_size_bytes, u) ==
    IF too_large(file_size_bytes)
    THEN Return([error |-> "File too large for OpenX402",
                 max_size_bytes |-> OPENX402_MAX_FILE_SIZE_BYTES,
                 max_size_mb |-> OPENX402_MAX_FILE_SIZE_MB,
                 requested_size_bytes |-> file_size_bytes,
                 provider |-> "openx402"], <<>>)
    ELSE LET r == get_x402_quote("openx402", u)
         IN  IF r.ret # None
             THEN Return(Update(r.ret[1],
                                [provider |-> "openx402",
                                 category |-> "storage",
                                 file_size_bytes |-> file_size_bytes,
                                 permanent |-> TRUE,
                                 billing_period |-> "one-time",
                                 platform |-> "ipfs",
                                 max_size_mb |-> OPENX402_MAX_FILE_SIZE_MB]), r.calls)
             ELSE Return([error |-> "Failed to get quote from OpenX402",
                          provider |-> "openx402"], r.calls)

\* the base fee of the price breakdown: 0.01 USD
BASE_FEE_USD == UsdScale \div 100

\* quote['price_breakdown']: "extra.get('priceUSD', 0.01) - 0.01 if
\* extra.get('priceUSD') else 0"
price_breakdown(extra) ==
    [total_usd |-> DictGet(extra, "priceUSD"),
     base_fee_usd |-> BASE_FEE_USD,
     storage_cost_usd |-> IF Get(extra, "priceUSD", 0) # 0
                          THEN Get(extra, "priceUSD", BASE_FEE_USD) - BASE_FEE_USD
                          ELSE 0]

\* The rounded sizes in KB and MB are not modelled.
get_galaksio_storage_quote(data_size_bytes, u) ==
    LET r == get_x402_quote("galaksio_storage", u)
    IN  IF r.ret # None
        THEN LET quote == Update(r.ret[1],
                                 [provider |-> "galaksio_storage",
                                  category |-> "storage",
                                  data_size_bytes |-> data_size_bytes,
                                  permanent |-> TRUE,
                                  billing_period |-> "one-time",
                                  platform |-> "arweave"])
                 accepts == Get(quote.metadata.response, "accepts", <<EmptyDict>>)[1]
             IN  IF Has(quote, "metadata") /\ Has(quote.metadata, "response")
                    /\ Has(accepts, "extra")
                 THEN Return(Update(quote,
                                    [dynamic_pricing |->
                                         Get(accepts.extra, "dynamicPricing", FALSE),
                                     price_breakdown |-> price_breakdown(accepts.extra)]),
                             r.calls)
                 ELSE Return(quote, r.calls)
        ELSE Return([error |-> "Failed to get quote from Galaksio Storage"], r.calls)

get_merit_systems_quote(code_size_bytes, language, u) ==
    LET r == get_x402_quote("merit", u)
    IN  IF r.ret # None
        THEN Return(Update(r.ret[1],
                           [provider |-> "merit-systems",
                            code_size_bytes |-> code_size_bytes,
                            language |-> language,
                            operation |-> "execute"]), r.calls)
        ELSE Return([error |-> "Failed to get quote from Merit Systems"], r.calls)

\* normalize_to_usd(amount, currency): USD as it is, USDC over 10^6, and
\* nothing (None) for any other currency
normalize_to_usd(amount, currency) ==
    IF currency = "USD" THEN Return(Some(amount * UsdScale), <<>>)
    ELSE IF currency \in {"USDC", "USD Coin"} THEN Return(Some(AmountToUsd(amount)), <<>>)
    ELSE Return(None, <<>>)

\* a method that keeps its outcome in the TTL cache of the engine
self_after_Cached(method, self) == [self EXCEPT !._cache = [last |-> method]]

\* the attributes of the engine after one of its methods has run: no method
\* assigns to an attribute of self, and none changes one of the provider
\* lists or the cache in place
self_after(method, self) == self

-----------------------------------------------------------------------------
(* Service layer: outcomes of an endpoint *)

\* raise HTTPException(status_code, detail); the framework answers with that
\* status and {"detail": detail}.  The text that an endpoint appends to a
\* detail (a provider name, str(e)) is not modelled.
RaiseHTTP(status_code, detail, c) ==
    [exc |-> Some("HTTPException"), ret |-> None, calls |-> c,
     http |-> [status_code |-> status_code, detail |-> detail]]

\* try: body / except Exception: raise HTTPException(500, detail)
\* (HTTPException is an Exception: one raised by the body is caught as well)
except_Exception(body, detail) ==
    The({IF b.exc # None THEN RaiseHTTP(500, detail, b.calls) ELSE b
        : b \in {body}})

\* try: body / except HTTPException: raise / except Exception: raise
\* HTTPException(500, detail)
except_HTTPException(body, detail) ==
    The({IF b.exc # None /\ b.exc # Some("HTTPException")
        THEN RaiseHTTP(500, detail, b.calls)
        ELSE b
        : b \in {body}})

\* Python truthiness of an Optional string, and "x or default" on a number
Truthy(s) == s # None /\ s[1] # ""
OrDefault(x, default) == IF x = None \/ x[1] = 0 THEN default ELSE x[1]

-----------------------------------------------------------------------------
(* Service layer: the broker API (src/backend/quote/main.py) *)

\* the filter of valid_quotes
valid_quote(q) ==
    \/ /\ Has(q, "metadata")
       /\ Has(q.metadata, "status_code")
       /\ q.metadata.status_code = 402
    \/ Get(q, "price_usd", None) # None

\* req has fileSize and provider; permanent, ttl, fileName and fileContent are
\* handed to the adapter, which does not read them
get_store_quotes_v2(req, u) ==
    LET want_openx402 == ~Truthy(req.provider) \/ req.provider = Some("openx402")
        want_galaksio == ~Truthy(req.provider) \/ req.provider = Some("galaksio_storage")
    IN  The({
          The({ IF Len(quotes) = 0
                THEN RaiseHTTP(503, "No storage providers available for this file size",
                               log)
                ELSE LET kept == SelectSeq(quotes, valid_quote)
                         valid_quotes == sorted(IF Len(kept) = 0 THEN quotes ELSE kept)
                     IN  Return([quotes |-> quotes,
                                 best |-> IF Len(valid_quotes) > 0
                                          THEN Some(valid_quotes[1])
                                          ELSE None,
                                 count |-> Len(quotes)], log)
                : quotes \in {(IF want_openx402 /\ ~Has(openx402_quote.ret, "error")
                               THEN <<openx402_quote.ret>> ELSE <<>>)
                              \o (IF want_galaksio /\ ~Has(galaksio_quote.ret, "error")
                                  THEN <<galaksio_quote.ret>> ELSE <<>>)},
                  log \in {(IF want_openx402 THEN openx402_quote.calls ELSE <<>>)
                           \o (IF want_galaksio THEN galaksio_quote.calls ELSE <<>>)} })
          : openx402_quote \in {get_openx402_storage_quote(req.fileSize, u)},
            galaksio_quote \in {get_galaksio_storage_quote(req.fileSize, u)} })

get_run_quote_v2(req, u) ==
    The({IF Has(quote.ret, "error") THEN RaiseHTTP(503, quote.ret.error, quote.calls)
        ELSE quote
        : quote \in {get_merit_systems_quote(req.codeSize, req.language, u)}})

get_cache_quote_v2(req, u) ==
    The({IF Has(quote.ret[1], "error")
        THEN RaiseHTTP(503, quote.ret[1].error, quote.calls)
        ELSE Return(quote.ret[1], quote.calls)
        : quote \in {get_xcache_create_quote(req.region, u)}})

get_best_quote_v2(spec, u) ==
    LET operation == Get(spec, "operation", "")
    IN  IF operation = "store"
        THEN LET store_req == [fileSize |-> Get(spec, "fileSize", Get(spec, "file_size", 0)),
                               provider |-> None]
             IN  The({IF r.exc # None THEN r ELSE Return(r.ret.best, r.calls)
                     : r \in {get_store_quotes_v2(store_req, u)}})
        ELSE IF operation = "run"
        THEN get_run_quote_v2([codeSize |-> Get(spec, "codeSize", Get(spec, "code_size", 0)),
                               language |-> Get(spec, "language", "python")], u)
        ELSE IF operation = "cache"
        THEN get_cache_quote_v2([region |-> Get(spec, "region", "us-east-1")], u)
        ELSE RaiseHTTP(400, "Unknown operation type", <<>>)

-----------------------------------------------------------------------------
(* Service layer: the comparison API (src/quote/api/main.py) *)

api_get_compute_quotes(request, u) ==
    LET spec == ComputeSpec(request.cpu_cores, request.memory_gb, request.storage_gb)
    IN  except_Exception(
            The({IF comparison.exc # None THEN comparison
                ELSE IF Has(comparison.ret, "error")
                THEN RaiseHTTP(404, comparison.ret.error, comparison.calls)
                ELSE comparison
                : comparison \in {compare_compute(spec, u)}}),
            "Error fetching compute quotes")

api_get_storage_quotes(request, u) ==
    LET spec == StorageSpec(request.size_gb, request.permanent)
    IN  except_Exception(
            The({IF comparison.exc # None THEN comparison
                ELSE IF Has(comparison.ret, "error")
                THEN RaiseHTTP(404, comparison.ret.error, comparison.calls)
                ELSE comparison
                : comparison \in {compare_storage(spec, u)}}),
            "Error fetching storage quotes")

api_get_best_offer(request, u) ==
    LET compute_spec ==
            IF request.compute # None
            THEN Some(ComputeSpec(request.compute[1].cpu_cores,
                                  request.compute[1].memory_gb,
                                  request.compute[1].storage_gb))
            ELSE None
        storage_spec ==
            IF request.storage # None
            THEN Some(StorageSpec(request.storage[1].size_gb,
                                  request.storage[1].permanent))
            ELSE None
    IN  except_HTTPException(
            The({IF best.exc # None THEN best
                ELSE IF best.ret = None
                THEN RaiseHTTP(404, "No quotes available", best.calls)
                ELSE Return(best.ret[1], best.calls)
                : best \in {get_best_offer(compute_spec, storage_spec, None, u)}}),
            "Error finding best offer")

-----------------------------------------------------------------------------
(* Service layer: the quote API (src/quote/main.py) *)

\* "[request.provider] if request.provider else None"
ProviderList(provider) == IF Truthy(provider) THEN Some(<<provider[1]>>) ELSE None

\* the try body shared by compute_quote, storage_quote and cache_quote: quotes
\* is the outcome of get_*_quotes(spec, providers=[provider]), comparison that
\* of compare_*(spec)
category_quote(job_type, provider, quotes, comparison) ==
    IF Truthy(provider)
    THEN The({IF q.exc # None THEN q
             ELSE IF Len(q.ret) = 0
             THEN RaiseHTTP(404, "No quotes available for provider", q.calls)
             ELSE Return([job_type |-> job_type,
                          provider |-> provider[1],
                          quote |-> q.ret[1]], q.calls)
             : q \in {quotes}})
    ELSE The({IF c.exc # None THEN c
             ELSE IF Has(c.ret, "error") THEN RaiseHTTP(404, c.ret.error, c.calls)
             ELSE Return([job_type |-> job_type,
                          spec |-> c.ret.spec,
                          quotes |-> c.ret.quotes,
                          best_offer |-> c.ret.best_offer,
                          total_providers |-> c.ret.total_providers], c.calls)
             : c \in {comparison}})

\* a request model that declares no bounds
validate_ComputeQuoteRequest_Unbounded(body) == TRUE

\* the bounds that ComputeQuoteRequest declares: cpu_cores and memory_gb
\* ge=0.1, storage_gb ge=0
validate_ComputeQuoteRequest(body) ==
    /\ 10 * body.cpu_cores >= 1
    /\ 10 * body.memory_gb >= 1
    /\ body.storage_gb >= 0

compute_quote(request, u) ==
    LET spec == ComputeSpec(request.cpu_cores, request.memory_gb, request.storage_gb)
    IN  except_HTTPException(
            category_quote("compute", request.provider,
                           get_compute_quotes(spec, ProviderList(request.provider), u),
                           compare_compute(spec, u)),
            "Error fetching compute quotes")

\* POST /quote/compute: the framework validates the body against
\* ComputeQuoteRequest and answers 422 without calling the handler when the
\* validation fails
post_quote_compute(body, u) ==
    IF ~validate_ComputeQuoteRequest(body) THEN Raise("RequestValidationError", <<>>)
    ELSE compute_quote(body, u)

storage_quote(request, u) ==
    LET spec == StorageSpec(request.size_gb, request.permanent)
    IN  except_HTTPException(
            category_quote("storage", request.provider,
                           get_storage_quotes(spec, ProviderList(request.provider), u),
                           compare_storage(spec, u)),
            "Error fetching storage quotes")

cache_quote(request, u) ==
    LET spec == CacheSpec(request.size_mb, request.operation)
    IN  except_HTTPException(
            category_quote("cache", request.provider,
                           get_cache_quotes(spec, ProviderList(request.provider), u),
                           compare_cache(spec, u)),
            "Error fetching cache quotes")

_infer_job_type(request) ==
    LET has_compute == \/ request.cpu_cores # None
                       \/ request.memory_gb # None
                       \/ request.gpu # None
        has_storage == \/ request.size_gb # None
                       \/ request.permanent # None
                       \/ request.duration_days # None
        has_cache == \/ request.size_mb # None
                     \/ request.cache_operation # None
                     \/ request.ttl_hours # None
        type_count == (IF has_compute THEN 1 ELSE 0) + (IF has_storage THEN 1 ELSE 0)
                          + (IF has_cache THEN 1 ELSE 0)
    IN  IF type_count > 1 THEN "hybrid"
        ELSE IF has_compute THEN "compute"
        ELSE IF has_storage THEN "storage"
        ELSE IF has_cache THEN "cache"
        ELSE "unknown"

\* the specs that orchestrated_quote builds from the request
orchestrated_compute_spec(request) ==
    ComputeSpec(OrDefault(request.cpu_cores, 1), OrDefault(request.memory_gb, 1),
                OrDefault(request.storage_gb, 1))

orchestrated_storage_spec(request) ==
    StorageSpec(OrDefault(request.size_gb, 1), request.permanent = Some(TRUE))

orchestrated_cache_spec(request) ==
    CacheSpec(OrDefault(request.size_mb, 100),
              IF Truthy(request.cache_operation) THEN request.cache_operation[1]
              ELSE "create")

\* one of the branches compute / storage / cache of orchestrated_quote
orchestrated_category(job_type, provider, quotes, comparison) ==
    IF Truthy(provider)
    THEN The({IF q.exc # None THEN q
             ELSE IF Len(q.ret) = 0 THEN RaiseHTTP(404, "No quotes available", q.calls)
             ELSE Return([job_type |-> job_type, quote |-> q.ret[1]], q.calls)
             : q \in {quotes}})
    ELSE The({IF c.exc # None THEN c
             ELSE IF Has(c.ret, "error") THEN RaiseHTTP(404, c.ret.error, c.calls)
             ELSE Return(Update([job_type |-> job_type], c.ret), c.calls)
             : c \in {comparison}})

\* "if request.size_mb or request.cache_operation"
hybrid_wants_cache(request) ==
    \/ request.size_mb # None /\ request.size_mb[1] # 0
    \/ Truthy(request.cache_operation)

\* the comparisons of the hybrid branch, before get_best_offer
hybrid_sections(request, u) ==
    The({IF compute_comparison.exc # None THEN compute_comparison
        ELSE IF storage_comparison.exc # None
        THEN Raise(storage_comparison.exc[1],
                   compute_comparison.calls \o storage_comparison.calls)
        ELSE IF hybrid_wants_cache(request)
        THEN Return([job_type |-> "hybrid",
                     compute |-> compute_comparison.ret,
                     storage |-> storage_comparison.ret,
                     cache |-> cache_comparison.ret],
                    compute_comparison.calls \o storage_comparison.calls
                        \o cache_comparison.calls)
        ELSE Return([job_type |-> "hybrid",
                     compute |-> compute_comparison.ret,
                     storage |-> storage_comparison.ret],
                    compute_comparison.calls \o storage_comparison.calls)
        : compute_comparison \in
              {compare_compute(orchestrated_compute_spec(request), u)},
          storage_comparison \in
              {compare_storage(orchestrated_storage_spec(request), u)},
          cache_comparison \in
              {compare_cache(orchestrated_cache_spec(request), u)}})

\* the hybrid branch: the comparisons, then get_best_offer
hybrid_quote(request, u, u2) ==
    The({IF sections.exc # None THEN sections
        ELSE The({IF best_offer.exc # None
                 THEN Raise(best_offer.exc[1], sections.calls \o best_offer.calls)
                 ELSE Return(IF best_offer.ret # None
                             THEN Update(sections.ret,
                                         [overall_best_offer |-> best_offer.ret[1]])
                             ELSE sections.ret,
                             sections.calls \o best_offer.calls)
                 : best_offer \in
                       {get_best_offer(Some(orchestrated_compute_spec(request)),
                                       Some(orchestrated_storage_spec(request)),
                                       IF hybrid_wants_cache(request)
                                       THEN Some(orchestrated_cache_spec(request))
                                       ELSE None,
                                       u2)}})
        : sections \in {hybrid_sections(request, u)}})

\* u answers the requests of the comparisons, u2 those of get_best_offer in
\* the hybrid branch, which probes the upstreams a second time
orchestrated_quote(request, u, u2) ==
    LET job_type == _infer_job_type(request)
        providers == ProviderList(request.provider)
    IN  except_HTTPException(
            IF job_type = "unknown"
            THEN RaiseHTTP(400, "Could not infer job type", <<>>)
            ELSE IF job_type = "compute"
            THEN orchestrated_category(job_type, request.provider,
                     get_compute_quotes(orchestrated_compute_spec(request), providers, u),
                     compare_compute(orchestrated_compute_spec(request), u))
            ELSE IF job_type = "storage"
            THEN orchestrated_category(job_type, request.provider,
                     get_storage_quotes(orchestrated_storage_spec(request), providers, u),
                     compare_storage(orchestrated_storage_spec(request), u))
            ELSE IF job_type = "cache"
            THEN orchestrated_category(job_type, request.provider,
                     get_cache_quotes(orchestrated_cache_spec(request), providers, u),
                     compare_cache(orchestrated_cache_spec(request), u))
            ELSE hybrid_quote(request, u, u2),
            "Error in orchestrated quote")

-----------------------------------------------------------------------------
(* Arguments of the calls *)

ComputeSpecs == {ComputeSpec(1, 1, g) : g \in 1..MaxSizeGb}

StorageSpecs == {StorageSpec(g, p) : g \in 1..MaxSizeGb, p \in BOOLEAN}

CacheOperations == {"create", "get", "set", "delete", "list", "ttl"}

CacheSpecs == {CacheSpec(100, o) : o \in CacheOperations}

ComputeProviderArgs ==
    {None, Some(<<>>), Some(<<"akash">>), Some(<<"aws">>), Some(<<"aws", "akash">>)}

StorageProviderArgs ==
    {None, Some(<<>>), Some(<<"arweave">>), Some(<<"pinata">>), Some(<<"filecoin">>),
     Some(<<"arweave", "pinata">>), Some(<<"pinata", "arweave">>)}

CacheProviderArgs == {None, Some(<<>>), Some(<<"xcache">>), Some(<<"redis">>)}

Optional(S) == {None} \cup {Some(x) : x \in S}

\* the rounds of answers of the upstreams of each category
ComputeUpstreams == {[Unreached EXCEPT !.akash = a] : a \in AkashAnswers}

StorageUpstreams ==
    {[Unreached EXCEPT !.arweave = a, !.coingecko = c, !.pinata = p]
        : a \in ArweaveAnswers, c \in CoingeckoAnswers, p \in X402Answers}

CacheUpstreams == {[Unreached EXCEPT !.xcache = x] : x \in X402Answers}

\* the rounds of answers of the upstreams of the categories that have a spec
UpstreamsOf(compute_spec, storage_spec, cache_spec) ==
    {[Unreached EXCEPT !.akash = k, !.arweave = a, !.coingecko = c,
                       !.pinata = p, !.xcache = x]
        : k \in IF compute_spec = None THEN {ReqExc} ELSE AkashAnswers,
          a \in IF storage_spec = None THEN {ReqExc} ELSE ArweaveAnswers,
          c \in IF storage_spec = None THEN {ReqExc} ELSE CoingeckoAnswers,
          p \in IF storage_spec = None THEN {ReqExc} ELSE X402Answers,
          x \in IF cache_spec = None THEN {ReqExc} ELSE X402Answers}

\* the cache specs of a request for several categories
SomeCacheSpecs == {CacheSpec(100, o) : o \in {"create", "get"}}

\* the dicts that compare_compute, compare_storage and compare_cache return
Comparisons ==
    {c.ret : c \in {r \in {compare_compute(spec, u) : spec \in ComputeSpecs,
                                                      u \in ComputeUpstreams}
                             \cup {compare_storage(spec, u) : spec \in StorageSpecs,
                                                             u \in StorageUpstreams}
                             \cup {compare_cache(spec, u) : spec \in CacheSpecs,
                                                           u \in CacheUpstreams}
                        : r.exc = None}}

\* currencies handed to normalize_to_usd
Currencies == {"USD", "USDC", "USD Coin", "AR"}

ExportFormats == {"json", "markdown", "csv"}

\* the upstreams that the repository probes with get_x402_quote
X402Upstreams == {"openx402", "galaksio_storage", "merit"}

\* file sizes around the ceiling of openx402
FileSizes == {OPENX402_MAX_FILE_SIZE_BYTES + d : d \in (0 - MaxSizeDelta)..MaxSizeDelta}

Openx402Upstreams == {[Unreached EXCEPT !.openx402 = a] : a \in X402Answers}

StoreRequests ==
    {[fileSize |-> n, provider |-> p]
        : n \in FileSizes,
          p \in {None, Some("openx402"), Some("galaksio_storage"), Some("pinata")}}

StoreUpstreams ==
    {[Unreached EXCEPT !.openx402 = a, !.galaksio_storage = b]
        : a \in X402Answers, b \in GalaksioAnswers}

GalaksioUpstreams == {[Unreached EXCEPT !.galaksio_storage = b] : b \in GalaksioAnswers}

RunRequests == {[codeSize |-> 1000, language |-> "python"]}

RunUpstreams == {[Unreached EXCEPT !.merit = a] : a \in X402Answers}

CacheRequestsV2 == {[region |-> "us-east-1"]}

\* the generic specs of /quote/best
BestSpecs ==
    {[operation |-> "store", fileSize |-> n] : n \in FileSizes}
    \cup {[operation |-> "store", file_size |-> OPENX402_MAX_FILE_SIZE_BYTES]}
    \cup {[operation |-> "run", codeSize |-> 1000]}
    \cup {[operation |-> "cache"]}
    \cup {[operation |-> "deploy"]}
    \cup {[fileSize |-> OPENX402_MAX_FILE_SIZE_BYTES]}

BestUpstreams(spec) ==
    LET operation == Get(spec, "operation", "")
    IN  IF operation = "store" THEN StoreUpstreams
        ELSE IF operation = "run" THEN RunUpstreams
        ELSE IF operation = "cache" THEN CacheUpstreams
        ELSE {Unreached}

\* requests of the endpoints of the quote API
ComputeQuoteRequests ==
    {[cpu_cores |-> c, memory_gb |-> 1, storage_gb |-> g, provider |-> p]
        : c \in {-1, 0, 1}, g \in (-1)..MaxSizeGb,
          p \in {None, Some("akash"), Some("aws")}}

StorageQuoteRequests ==
    {[size_gb |-> g, permanent |-> b, provider |-> p]
        : g \in 1..MaxSizeGb, b \in BOOLEAN,
          p \in {None, Some("arweave"), Some("pinata"), Some("filecoin")}}

CacheQuoteRequests ==
    {[size_mb |-> 100, operation |-> o, provider |-> p]
        : o \in CacheOperations, p \in {None, Some("xcache"), Some("redis")}}

\* requests of the endpoints of the comparison API
ApiComputeRequests ==
    {[cpu_cores |-> 1, memory_gb |-> 1, storage_gb |-> g] : g \in 1..MaxSizeGb}

ApiStorageRequests ==
    {[size_gb |-> g, permanent |-> b] : g \in 1..MaxSizeGb, b \in BOOLEAN}

BestOfferRequests ==
    {[compute |-> c, storage |-> s]
        : c \in Optional(ApiComputeRequests), s \in Optional(ApiStorageRequests)}

\* requests of the orchestrated endpoint
OrchestrationRequests ==
    {[cpu_cores |-> c, memory_gb |-> None, storage_gb |-> g, gpu |-> None,
      size_gb |-> s, duration_days |-> None, permanent |-> p,
      size_mb |-> None, cache_operation |-> o, ttl_hours |-> h, provider |-> v]
        : c \in {None, Some(1)}, g \in {None, Some(1)}, s \in {None, Some(1)},
          p \in {None, Some(TRUE)}, o \in {None, Some("create"), Some("get")},
          h \in {None, Some(1)}, v \in {None, Some("pinata")}}

\* a 402 answer that asks for amount a
Challenge(a) ==
    [t |-> "resp", status |-> 402, headers |-> EmptyDict,
     body |-> Some([accepts |-> <<[scheme |-> "exact", maxAmountRequired |-> a]>>])]

\* the answers to an orchestrated request: each upstream is down or quotes
OrchestratedUpstreams ==
    {[Unreached EXCEPT !.akash = k, !.arweave = a, !.coingecko = c,
                       !.pinata = p, !.xcache = x]
        : k \in {ReqExc,
                 [t |-> "json",
                  body |-> [json |-> "object",
                            fields |-> [akash |-> Some(AmountToUsd(AmountStep))]]]},
          a \in {ReqExc, [t |-> "text", body |-> Some(WinstonStep)]},
          c \in {ReqExc, [t |-> "json", usd |-> None], [t |-> "json", usd |-> Some(RateStep)]},
          p \in {ReqExc} \cup {Challenge(m) : m \in Amounts},
          x \in {ReqExc, Challenge(AmountStep)}}

\* the answers to the second probe of a hybrid request: the same as the first,
\* every upstream down, or another price at pinata
SecondProbes(request, u) ==
    IF _infer_job_type(request) = "hybrid"
    THEN {u, Unreached} \cup {[u EXCEPT !.pinata = Challenge(m)] : m \in Amounts}
    ELSE {Unreached}

\* the local variables of a command of the client, before it has done a
\* request: the answer of the quote server, the number of the attempt of the
\* payment loop, and the responses that the loop has received
NoCommand == [quote_response |-> None, attempt |-> 0, responses |-> <<>>]

-----------------------------------------------------------------------------
(* State machine *)

Init ==
    /\ compute_providers = <<"akash", "aws", "gcp", "azure">>
    /\ storage_providers = <<"arweave", "pinata", "filecoin">>
    /\ cache_providers = <<"xcache", "redis", "memcached">>
    /\ cache = EmptyDict
    /\ op = "idle"
    /\ args = EmptyDict
    /\ up = NotAsked
    /\ again = NotAsked
    /\ calls = <<>>
    /\ result = [exc |-> None, ret |-> None]
    /\ pc = "idle"
    /\ cli = NoCommand

\* the attributes of the engine become those of self
EngineBecomes(self) ==
    /\ compute_providers' = self.compute_providers
    /\ storage_providers' = self.storage_providers
    /\ cache_providers' = self.cache_providers
    /\ cache' = self._cache

\* the engine of the process (quote_engine)
quote_engine ==
    [compute_providers |-> compute_providers, storage_providers |-> storage_providers,
     cache_providers |-> cache_providers, _cache |-> cache]

\* one call of operation name with arguments a: r is its outcome under the
\* upstream answers u
Call(name, a, u, r) ==
    /\ op' = name
    /\ args' = a
    /\ up' = Asked(u, r.calls)
    /\ again' = NotAsked
    /\ calls' = r.calls
    /\ result' = [f \in DOMAIN r \ {"calls"} |-> r[f]]
    /\ pc' = "done"
    /\ EngineBecomes(self_after(name, quote_engine))
    /\ UNCHANGED cli

GetComputeQuotes ==
    /\ op = "idle"
    /\ \E spec \in ComputeSpecs, providers \in ComputeProviderArgs, u \in ComputeUpstreams :
         \E r \in {get_compute_quotes(spec, providers, u)} :
           Call("get_compute_quotes", [spec |-> spec, providers |-> providers], u, r)

GetStorageQuotes ==
    /\ op = "idle"
    /\ \E spec \in StorageSpecs, providers \in StorageProviderArgs, u \in StorageUpstreams :
         \E r \in {get_storage_quotes(spec, providers, u)} :
           Call("get_storage_quotes", [spec |-> spec, providers |-> providers], u, r)

GetCacheQuotes ==
    /\ op = "idle"
    /\ \E spec \in CacheSpecs, providers \in CacheProviderArgs, u \in CacheUpstreams :
         \E r \in {get_cache_quotes(spec, providers, u)} :
           Call("get_cache_quotes", [spec |-> spec, providers |-> providers], u, r)

CompareCompute ==
    /\ op = "idle"
    /\ \E spec \in ComputeSpecs, u \in ComputeUpstreams :
         \E r \in {compare_compute(spec, u)} :
           Call("compare_compute", [spec |-> spec], u, r)

CompareStorage ==
    /\ op = "idle"
    /\ \E spec \in StorageSpecs, u \in StorageUpstreams :
         \E r \in {compare_storage(spec, u)} :
           Call("compare_storage", [spec |-> spec], u, r)

CompareCache ==
    /\ op = "idle"
    /\ \E spec \in CacheSpecs, u \in CacheUpstreams :
         \E r \in {compare_cache(spec, u)} :
           Call("compare_cache", [spec |-> spec], u, r)

GetBestOffer ==
    /\ op = "idle"
    /\ \E compute_spec \in Optional(ComputeSpecs), storage_spec \in Optional(StorageSpecs),
          cache_spec \in Optional(SomeCacheSpecs) :
         \E u \in UpstreamsOf(compute_spec, storage_spec, cache_spec) :
           \E r \in {get_best_offer(compute_spec, storage_spec, cache_spec, u)} :
             Call("get_best_offer",
                  [compute_spec |-> compute_spec, storage_spec |-> storage_spec,
                   cache_spec |-> cache_spec], u, r)

GetOpenx402StorageQuote ==
    /\ op = "idle"
    /\ \E file_size_bytes \in FileSizes, u \in Openx402Upstreams :
         \E r \in {get_openx402_storage_quote(file_size_bytes, u)} :
           Call("get_openx402_storage_quote", [file_size_bytes |-> file_size_bytes], u, r)

ExportComparison ==
    /\ op = "idle"
    /\ \E comparison \in Comparisons, format \in ExportFormats :
         \E r \in {export_comparison(comparison, format)} :
           Call("export_comparison", [comparison |-> comparison, format |-> format],
                Unreached, r)

NormalizeToUsd ==
    /\ op = "idle"
    /\ \E amount \in Amounts, currency \in Currencies :
         \E r \in {normalize_to_usd(amount, currency)} :
           Call("normalize_to_usd", [amount |-> amount, currency |-> currency],
                Unreached, r)

GetGalaksioStorageQuote ==
    /\ op = "idle"
    /\ \E data_size_bytes \in FileSizes, u \in GalaksioUpstreams :
         \E r \in {get_galaksio_storage_quote(data_size_bytes, u)} :
           Call("get_galaksio_storage_quote", [data_size_bytes |-> data_size_bytes], u, r)

GetX402Quote ==
    /\ op = "idle"
    /\ \E url \in X402Upstreams, a \in X402Answers :
         \E u \in {[Unreached EXCEPT ![url] = a]} :
           \E r \in {get_x402_quote(url, u)} :
             Call("get_x402_quote", [url |-> url], u, r)

\* POST /quote/store
GetStoreQuotesV2 ==
    /\ op = "idle"
    /\ \E req \in StoreRequests, u \in StoreUpstreams :
         \E r \in {get_store_quotes_v2(req, u)} :
           Call("get_store_quotes_v2", req, u, r)

\* POST /quote/run
GetRunQuoteV2 ==
    /\ op = "idle"
    /\ \E req \in RunRequests, u \in RunUpstreams :
         \E r \in {get_run_quote_v2(req, u)} :
           Call("get_run_quote_v2", req, u, r)

\* POST /quote/cache of the broker API
GetCacheQuoteV2 ==
    /\ op = "idle"
    /\ \E req \in CacheRequestsV2, u \in CacheUpstreams :
         \E r \in {get_cache_quote_v2(req, u)} :
           Call("get_cache_quote_v2", req, u, r)

\* POST /quote/best
GetBestQuoteV2 ==
    /\ op = "idle"
    /\ \E spec \in BestSpecs :
         \E u \in BestUpstreams(spec) :
           \E r \in {get_best_quote_v2(spec, u)} :
             Call("get_best_quote_v2", spec, u, r)

\* POST /quotes/compute
ApiGetComputeQuotes ==
    /\ op = "idle"
    /\ \E request \in ApiComputeRequests, u \in ComputeUpstreams :
         \E r \in {api_get_compute_quotes(request, u)} :
           Call("api_get_compute_quotes", request, u, r)

\* POST /quotes/storage
ApiGetStorageQuotes ==
    /\ op = "idle"
    /\ \E request \in ApiStorageRequests, u \in StorageUpstreams :
         \E r \in {api_get_storage_quotes(request, u)} :
           Call("api_get_storage_quotes", request, u, r)

\* POST /quotes/best-offer
ApiGetBestOffer ==
    /\ op = "idle"
    /\ \E request \in BestOfferRequests :
         \E u \in UpstreamsOf(request.compute, request.storage, None) :
           \E r \in {api_get_best_offer(request, u)} :
             Call("api_get_best_offer", request, u, r)

\* POST /quote/compute
ComputeQuote ==
    /\ op = "idle"
    /\ \E request \in ComputeQuoteRequests, u \in ComputeUpstreams :
         \E r \in {post_quote_compute(request, u)} :
           Call("compute_quote", request, u, r)

\* POST /quote/storage
StorageQuote ==
    /\ op = "idle"
    /\ \E request \in StorageQuoteRequests, u \in StorageUpstreams :
         \E r \in {storage_quote(request, u)} :
           Call("storage_quote", request, u, r)

\* POST /quote/cache of the quote API
CacheQuote ==
    /\ op = "idle"
    /\ \E request \in CacheQuoteRequests, u \in CacheUpstreams :
         \E r \in {cache_quote(request, u)} :
           Call("cache_quote", request, u, r)

\* POST /quote: the requests of the comparisons are answered by u, those of
\* get_best_offer in the hybrid branch by u2
OrchestratedQuote ==
    /\ op = "idle"
    /\ \E request \in OrchestrationRequests, u \in OrchestratedUpstreams :
         \E u2 \in SecondProbes(request, u) :
           \E r \in {orchestrated_quote(request, u, u2)} :
             \E first \in {IF _infer_job_type(request) = "hybrid"
                           THEN Len(hybrid_sections(request, u).calls)
                           ELSE Len(r.calls)} :
               /\ op' = "orchestrated_quote"
               /\ args' = request
               /\ up' = Asked(u, SubSeq(r.calls, 1, first))
               /\ again' = Asked(u2, SubSeq(r.calls, first + 1, Len(r.calls)))
               /\ calls' = r.calls
               /\ result' = [f \in DOMAIN r \ {"calls"} |-> r[f]]
               /\ pc' = "done"
               /\ EngineBecomes(self_after("orchestrated_quote", quote_engine))
               /\ UNCHANGED cli

\* the caller has the outcome; the values of the request are discarded
Respond ==
    /\ pc = "done"
    /\ op' = "idle"
    /\ args' = EmptyDict
    /\ up' = NotAsked
    /\ again' = NotAsked
    /\ calls' = <<>>
    /\ result' = [exc |-> None, ret |-> None]
    /\ pc' = "idle"
    /\ cli' = NoCommand
    /\ UNCHANGED engine

Next ==
    \/ GetComputeQuotes
    \/ GetStorageQuotes
    \/ GetCacheQuotes
    \/ CompareCompute
    \/ CompareStorage
    \/ CompareCache
    \/ GetBestOffer
    \/ ExportComparison
    \/ NormalizeToUsd
    \/ GetOpenx402StorageQuote
    \/ GetGalaksioStorageQuote
    \/ GetX402Quote
    \/ GetStoreQuotesV2
    \/ GetRunQuoteV2
    \/ GetCacheQuoteV2
    \/ GetBestQuoteV2
    \/ ApiGetComputeQuotes
    \/ ApiGetStorageQuotes
    \/ ApiGetBestOffer
    \/ ComputeQuote
    \/ StorageQuote
    \/ CacheQuote
    \/ OrchestratedQuote
    \/ Respond

Spec == Init /\ [][Next]_vars

-----------------------------------------------------------------------------
(* An engine call, request by request *)

\* the timeout argument of the request to each upstream, in seconds (None:
\* the request is made without a timeout and waits as long as it takes)
timeout(name) ==
    CASE name = "akash" -> None
      [] name = "arweave" -> None
      [] name = "coingecko" -> None
      [] name = "pinata" -> Some(15)
      [] OTHER -> Some(15)

\* the request is on its way; the upstream will never answer it
Sent == [t |-> "sent"]
Silent == [t |-> "silent"]

AnswersOf(name) ==
    CASE name = "akash" -> AkashAnswers
      [] name = "arweave" -> ArweaveAnswers
      [] name = "coingecko" -> CoingeckoAnswers
      [] OTHER -> X402Answers

\* the engine calls that are followed request by request, and their arguments
EngineCalls ==
    {[op |-> "get_compute_quotes", args |-> [spec |-> s, providers |-> None]]
        : s \in ComputeSpecs}
    \cup {[op |-> "get_storage_quotes", args |-> [spec |-> s, providers |-> None]]
             : s \in StorageSpecs}
    \cup {[op |-> "get_cache_quotes", args |-> [spec |-> s, providers |-> None]]
             : s \in SomeCacheSpecs}
    \cup {[op |-> "compare_compute", args |-> [spec |-> s]] : s \in ComputeSpecs}
    \cup {[op |-> "compare_storage", args |-> [spec |-> s]] : s \in StorageSpecs}
    \cup {[op |-> "compare_cache", args |-> [spec |-> s]] : s \in SomeCacheSpecs}

\* the call op(a) under the answers u
Run(o, a, u) ==
    CASE o = "get_compute_quotes" -> get_compute_quotes(a.spec, a.providers, u)
      [] o = "get_storage_quotes" -> get_storage_quotes(a.spec, a.providers, u)
      [] o = "get_cache_quotes" -> get_cache_quotes(a.spec, a.providers, u)
      [] o = "compare_compute" -> compare_compute(a.spec, u)
      [] o = "compare_storage" -> compare_storage(a.spec, u)
      [] o = "compare_cache" -> compare_cache(a.spec, u)

\* the caller enters the call
Start ==
    /\ pc = "idle"
    /\ \E c \in EngineCalls : op' = c.op /\ args' = c.args
    /\ pc' = "running"
    /\ UNCHANGED <<engine, up, again, calls, result, cli>>

\* the call reaches its next request and sends it; the upstream is one that
\* will answer or one that stays silent
Send ==
    /\ pc = "running"
    /\ \E r \in {Run(op, args, Replay(up))} :
         /\ Len(r.calls) > Len(calls)
         /\ \E a \in {Sent, Silent} :
              up' = [up EXCEPT ![r.calls[Len(calls) + 1]] = Some(a)]
         /\ calls' = Append(calls, r.calls[Len(calls) + 1])
    /\ pc' = "waiting"
    /\ UNCHANGED <<engine, op, args, again, result, cli>>

\* the upstream answers (or the connection fails)
Answer ==
    /\ pc = "waiting"
    /\ \E n \in UpstreamNames :
         /\ up[n] = Some(Sent)
         /\ \E a \in AnswersOf(n) : up' = [up EXCEPT ![n] = Some(a)]
    /\ pc' = "running"
    /\ UNCHANGED <<engine, op, args, again, calls, result, cli>>

\* the timeout of the request expires: requests raises Timeout, a
\* RequestException
TimeoutExpires ==
    /\ pc = "waiting"
    /\ \E n \in UpstreamNames :
         /\ up[n] # None
         /\ up[n][1].t \in {"sent", "silent"}
         /\ timeout(n) # None
         /\ up' = [up EXCEPT ![n] = Some(ReqExc)]
    /\ pc' = "running"
    /\ UNCHANGED <<engine, op, args, again, calls, result, cli>>

\* no request is left: the call returns or raises
Finish ==
    /\ pc = "running"
    /\ \E r \in {Run(op, args, Replay(up))} :
         /\ Len(r.calls) = Len(calls)
         /\ result' = [f \in DOMAIN r \ {"calls"} |-> r[f]]
    /\ pc' = "done"
    /\ UNCHANGED <<engine, op, args, up, again, calls, cli>>

SilentNext ==
    \/ Start
    \/ Send
    \/ Answer
    \/ TimeoutExpires
    \/ Finish
    \/ Respond

\* the interpreter keeps running the call, upstreams that are not silent
\* answer, and timers expire
SilentSpec == Init /\ [][SilentNext]_vars /\ WF_vars(SilentNext)

-----------------------------------------------------------------------------
(* The command line client (src/cli/galaksio_cli/cli.py), await by await *)

\* a loop that allows a fourth attempt
max_retries_OneMore == 3 + 1

\* max_retries of the payment loop of _execute_run
max_retries == 3

\* an HTTP response with a JSON body (None: the body is not JSON)
Response(status, body) == [t |-> "resp", status |-> status, body |-> body]

\* the response of the quote server to the outcome r of its endpoint: 200
\* with the value, the status and {"detail": ...} of an HTTPException, or
\* 500 with a plain text body
QuoteServerResponse(r) ==
    IF r.exc = None THEN Response(200, Some(r.ret))
    ELSE IF r.exc = Some("HTTPException")
    THEN Response(r.http.status_code, Some([detail |-> r.http.detail]))
    ELSE Response(500, None)

\* the upstreams of the quote server are down or quote
QuoteServerUpstreams ==
    {[Unreached EXCEPT !.merit = a, !.openx402 = a, !.galaksio_storage = b, !.xcache = a]
        : a \in {ReqExc, Challenge(AmountStep)}, b \in {ReqExc, Challenge(AmountStep)}}

\* the commands and their arguments
Commands ==
    {[command |-> "run", code_size |-> 1000, language |-> "python"],
     [command |-> "store", file_size |-> 1000, permanent |-> FALSE, ttl |-> 3600],
     [command |-> "cache", region |-> "us-east-1"]}

\* what the quote server may answer to the quote request of command a: the
\* request fails (connection error, timeout), or the endpoint answers
QuoteServerAnswers(a) ==
    {ReqExc}
    \cup {QuoteServerResponse(
              CASE a.command = "run" ->
                       get_run_quote_v2([codeSize |-> a.code_size,
                                         language |-> a.language], u)
                [] a.command = "store" ->
                       get_store_quotes_v2([fileSize |-> a.file_size,
                                            provider |-> None], u)
                [] a.command = "cache" ->
                       get_cache_quote_v2([region |-> a.region], u))
           : u \in QuoteServerUpstreams}

\* what the broker may answer to /run, /store and /cache: the request
\* fails, a result, or (for /run) payment instructions with or without a
\* payment option and its url
PaymentInstructions(accepts) ==
    [status |-> "instructions_provided", provider |-> "merit-systems",
     metadata |-> [response |-> [accepts |-> accepts]]]

BrokerAnswers(a) ==
    {ReqExc, Response(200, None), Response(200, Some([status |-> "completed"])),
     Response(500, Some([detail |-> "failed"]))}
    \cup (IF a.command = "run"
          THEN {Response(200, Some(PaymentInstructions(accepts)))
                   : accepts \in {<<>>, <<[scheme |-> "exact"]>>,
                                  <<[scheme |-> "exact", url |-> "https://merit/run"]>>}}
                   \cup {Response(200, Some([status |-> "instructions_provided"]))}
          ELSE {})

\* what the paid resource may answer: the request fails, a result, an error,
\* or one of two 402 challenges, with or without a JSON body
ResourceAnswers ==
    {ReqExc, Response(200, Some([output |-> "done"])), Response(500, Some([detail |-> "failed"])),
     Response(402, None)}
    \cup {Response(402, Some([error |-> "payment required", nonce |-> n])) : n \in {"a", "b"}}

\* "try: response = await client.post(...); return response.json()
\*  except Exception as e: return {'error': str(e)}": the body of
\* _get_run_quote, _get_store_quote, _get_cache_quote, _execute_store and
\* _execute_cache
post_json(answer) ==
    IF answer.t = "reqexc" THEN [error |-> "request failed"]
    ELSE IF answer.body = None THEN [error |-> "not JSON"]
    ELSE answer.body[1]

\* the dict that _execute_run returns from its except branch
error_details == [error |-> "exception", error_type |-> "Exception"]

\* response.json() inside the try of _execute_run
json_or_error_details(answer) ==
    IF answer.t = "reqexc" \/ answer.body = None THEN error_details ELSE answer.body[1]

\* the first payment option of the instructions of the broker, if the result
\* of /run is instructions with a payment option
payment_details(broker_result) ==
    IF Get(broker_result, "status", "") # "instructions_provided" THEN None
    ELSE The({IF Len(accepts) > 0 THEN Some(accepts[1]) ELSE None
             : accepts \in {Get(Get(Get(broker_result, "metadata", EmptyDict),
                                    "response", EmptyDict), "accepts", <<>>)}})

\* the command has ended with outcome r
CommandEnds(r) ==
    /\ result' = [exc |-> r.exc, ret |-> r.ret]
    /\ pc' = "done"

\* a command run / store / cache is entered: the file is read and the
\* clients are made
Command ==
    /\ pc = "idle"
    /\ \E a \in Commands : op' = a.command /\ args' = a
    /\ pc' = "quote"
    /\ UNCHANGED <<engine, up, again, calls, result, cli>>

\* "quote_response = await _get_*_quote(...)", and the test
\* "if 'error' in quote_response: return None, quote_response", after which
\* the command prints the error and aborts
GetQuote ==
    /\ pc = "quote"
    /\ \E answer \in QuoteServerAnswers(args) :
         \E quote_response \in {post_json(answer)} :
           /\ calls' = Append(calls, "quote_server")
           /\ cli' = [cli EXCEPT !.quote_response = Some(quote_response)]
           /\ IF Has(quote_response, "error")
              THEN CommandEnds(Raise("Abort", <<>>))
              ELSE pc' = "broker" /\ UNCHANGED result
    /\ UNCHANGED <<engine, op, args, up, again>>

\* "result = await _execute_*(broker_client, ...)": the request to the
\* broker.  _execute_store and _execute_cache return its answer; _execute_run
\* returns it unless it holds payment instructions with a payment option,
\* whose url it parses before it enters the payment loop (a payment option
\* without url raises TypeError there)
Execute ==
    /\ pc = "broker"
    /\ \E answer \in BrokerAnswers(args) :
         /\ calls' = Append(calls, "broker")
         /\ IF args.command # "run"
            THEN CommandEnds(Return(post_json(answer), <<>>))
            ELSE \E r \in {json_or_error_details(answer)} :
                   IF payment_details(r) = None
                   THEN CommandEnds(Return(r, <<>>))
                   ELSE IF ~Has(payment_details(r)[1], "url")
                   THEN CommandEnds(Return(error_details, <<>>))
                   ELSE pc' = "paying" /\ UNCHANGED result
    /\ UNCHANGED <<engine, op, args, up, again, cli>>

\* one pass of "for attempt in range(max_retries)": the post to the paid
\* resource, the return of a response that is not 402 or of the 402 response
\* of the last attempt, or else the next attempt; an exception ends the loop
\* in the except branch
ExecuteRunAttempt ==
    /\ pc = "paying"
    /\ \E final_response \in ResourceAnswers :
         /\ calls' = Append(calls, "resource")
         /\ IF final_response.t = "reqexc"
            THEN /\ CommandEnds(Return(error_details, <<>>))
                 /\ cli' = [cli EXCEPT !.responses = Append(@, final_response)]
            ELSE IF final_response.status # 402 \/ cli.attempt = max_retries - 1
            THEN /\ CommandEnds(Return(json_or_error_details(final_response), <<>>))
                 /\ cli' = [cli EXCEPT !.responses = Append(@, final_response)]
            ELSE /\ cli' = [cli EXCEPT !.attempt = @ + 1,
                                       !.responses = Append(@, final_response)]
                 /\ UNCHANGED <<pc, result>>
    /\ UNCHANGED <<engine, op, args, up, again>>

CliNext ==
    \/ Command
    \/ GetQuote
    \/ Execute
    \/ ExecuteRunAttempt
    \/ Respond

\* the event loop keeps running the command, and every request of the client
\* ends with a response or with an exception
CliSpec == Init /\ [][CliNext]_vars /\ WF_vars(CliNext)

-----------------------------------------------------------------------------
(* Properties *)

GetOps == {"get_compute_quotes", "get_storage_quotes", "get_cache_quotes"}
CompareOps == {"compare_compute", "compare_storage", "compare_cache"}

Returned == result.exc = None

\* the provider list of the engine (QuoteEngine.providers), and the place
\* of a provider in it
FixedProviders == compute_providers \o storage_providers \o cache_providers
Rank(p) == CHOOSE i \in 1..Len(FixedProviders) : FixedProviders[i] = p

\* the outcome of the get_*_quotes call that the current compare_* call made
Survivors ==
    CASE op = "compare_compute" -> get_compute_quotes(args.spec, None, Replay(up))
      [] op = "compare_storage" -> get_storage_quotes(args.spec, None, Replay(up))
      [] op = "compare_cache" -> get_cache_quotes(args.spec, None, Replay(up))

\* the outcome is a comparison (not the error outcome, not an exception)
IsComparison == Returned /\ Has(result.ret, "quotes")
IsNoQuotesError == Returned /\ Has(result.ret, "error")

Known(q) == q.price_usd # None

SortedAscending(quotes) ==
    \A i, j \in 1..Len(quotes) :
        i < j => /\ Known(quotes[i])
                 /\ Known(quotes[j])
                 /\ quotes[i].price_usd[1] <= quotes[j].price_usd[1]

\* C1: whenever the adapters of a compare_* call leave at least one surviving
\* quote, the call returns a comparison whose quotes are sorted ascending by
\* price_usd and whose best_offer is the first of them.
C1_CompareSortedBestFirst ==
    (op \in CompareOps /\ Survivors.exc = None /\ Len(Survivors.ret) >= 1)
        => /\ IsComparison
           /\ SortedAscending(result.ret.quotes)
           /\ result.ret.best_offer = result.ret.quotes[1]

\* C2: two quotes of one storage comparison with the same price_usd stand in
\* the order of the fixed provider list and the earlier one is the best offer;
\* get_storage_quotes returns its quotes in that order whatever the order of
\* the providers argument.
C2_TieBreakByProviderOrder ==
    /\ (op \in CompareOps /\ IsComparison)
         => LET quotes == result.ret.quotes
            IN  /\ \A i, j \in 1..Len(quotes) :
                      (i < j /\ quotes[i].price_usd = quotes[j].price_usd)
                          => Rank(quotes[i].provider) < Rank(quotes[j].provider)
                /\ \A i \in 1..Len(quotes) :
                      quotes[i].price_usd = result.ret.best_offer.price_usd
                          => Rank(result.ret.best_offer.provider)
                                 <= Rank(quotes[i].provider)
    /\ (op \in GetOps /\ Returned)
         => \A i, j \in 1..Len(result.ret) :
                i < j => Rank(result.ret[i].provider) < Rank(result.ret[j].provider)

\* a storage comparison with two quotes of the same price
C2_Witness ==
    /\ op = "compare_storage"
    /\ IsComparison
    /\ Len(result.ret.quotes) = 2
    /\ result.ret.quotes[1].price_usd = result.ret.quotes[2].price_usd
    /\ result.ret.best_offer.provider = "arweave"

\* get_storage_quotes was given pinata before arweave and both answered
C2_WitnessCallerOrder ==
    /\ op = "get_storage_quotes"
    /\ args.providers = Some(<<"pinata", "arweave">>)
    /\ Returned
    /\ Len(result.ret) = 2

\* the quotes of the outcome of a get_*_quotes or compare_* call
QuoteList ==
    IF ~Returned THEN <<>>
    ELSE IF op \in GetOps THEN result.ret
    ELSE IF Has(result.ret, "quotes") THEN result.ret.quotes
    ELSE <<>>

\* the outcome of the get_*_quotes calls that the current get_best_offer call
\* made, and their quotes put together
Union ==
    LET c == IF args.compute_spec # None
             THEN get_compute_quotes(args.compute_spec[1], None, Replay(up))
             ELSE Return(<<>>, <<>>)
        s == IF args.storage_spec # None
             THEN get_storage_quotes(args.storage_spec[1], None, Replay(up))
             ELSE Return(<<>>, <<>>)
        k == IF args.cache_spec # None
             THEN get_cache_quotes(args.cache_spec[1], None, Replay(up))
             ELSE Return(<<>>, <<>>)
    IN  IF c.exc # None THEN c
        ELSE IF s.exc # None THEN s
        ELSE Return(c.ret \o s.ret \o k.ret, c.calls \o s.calls \o k.calls)

\* C3: get_best_offer without any spec returns none; with specs it returns the
\* quote of minimal price_usd over all surviving quotes of all supplied
\* categories, and none when there is no surviving quote.
C3_BestOfferMinOverUnion ==
    op = "get_best_offer"
        => /\ (args.compute_spec = None /\ args.storage_spec = None
                  /\ args.cache_spec = None)
                 => (Returned /\ result.ret = None)
           /\ Union.exc = None
                 => IF Len(Union.ret) = 0
                    THEN Returned /\ result.ret = None
                    ELSE /\ Returned
                         /\ result.ret # None
                         /\ \E i \in 1..Len(Union.ret) : Union.ret[i] = result.ret[1]
                         /\ \A i \in 1..Len(Union.ret) :
                               \/ Union.ret[i] = result.ret[1]
                               \/ /\ Known(Union.ret[i])
                                  /\ Known(result.ret[1])
                                  /\ result.ret[1].price_usd[1]
                                         <= Union.ret[i].price_usd[1]

StorageOps == {"get_storage_quotes", "compare_storage"}

\* C4: a storage call whose spec has permanent = False never calls the
\* Arweave adapter (nor its price feed) and returns no arweave quote, whatever
\* the providers argument.
C4_NonPermanentExcludesArweave ==
    (op \in StorageOps /\ ~args.spec.permanent)
        => /\ Count("arweave", calls) = 0
           /\ Count("coingecko", calls) = 0
           /\ \A i \in 1..Len(QuoteList) : QuoteList[i].provider # "arweave"

\* arweave was named in providers, the spec is not permanent, pinata quoted
C4_Witness ==
    /\ op = "get_storage_quotes"
    /\ ~args.spec.permanent
    /\ args.providers # None
    /\ InList("arweave", args.providers[1])
    /\ Returned
    /\ Len(result.ret) = 1
    /\ result.ret[1].provider = "pinata"

CacheOps == {"get_cache_quotes", "compare_cache"}

EndpointOps ==
    {"get_store_quotes_v2", "get_run_quote_v2", "get_cache_quote_v2", "get_best_quote_v2",
     "api_get_compute_quotes", "api_get_storage_quotes", "api_get_best_offer",
     "compute_quote", "storage_quote", "cache_quote", "orchestrated_quote"}

\* the HTTP status of the response of an endpoint
Status ==
    IF result.exc = None THEN 200
    ELSE IF result.exc = Some("HTTPException") THEN result.http.status_code
    ELSE IF result.exc = Some("RequestValidationError") THEN 422
    ELSE 500

\* the answer is a 402 challenge with a payment option
PaymentChallenge(a) ==
    /\ a.t = "resp"
    /\ a.status = 402
    /\ a.body # None
    /\ Has(a.body[1], "accepts")
    /\ Len(a.body[1].accepts) >= 1

\* C6: given a size above 100,000,000 bytes the openx402 adapter returns the
\* structured error (message, requested size, maximum size) without any
\* request; a size equal to the ceiling is not rejected and is sent upstream;
\* /quote/store for a size above the ceiling sends nothing to openx402, lists
\* no openx402 quote and still returns the quote of galaksio_storage.
C6_Openx402CeilingStructuredError ==
    /\ (op = "get_openx402_storage_quote" /\ args.file_size_bytes > 100000000)
          => /\ Returned
             /\ calls = <<>>
             /\ Has(result.ret, "error")
             /\ result.ret.error = "File too large for OpenX402"
             /\ Has(result.ret, "requested_size_bytes")
             /\ result.ret.requested_size_bytes = args.file_size_bytes
             /\ Has(result.ret, "max_size_bytes")
             /\ result.ret.max_size_bytes = 100000000
    /\ (op = "get_openx402_storage_quote" /\ args.file_size_bytes = 100000000)
          => /\ Returned
             /\ calls = <<"openx402">>
             /\ ~Has(result.ret, "max_size_bytes")
    /\ (op = "get_store_quotes_v2" /\ args.fileSize > 100000000)
          => /\ Count("openx402", calls) = 0
             /\ Status = 200
                   => \A i \in 1..Len(result.ret.quotes) :
                          result.ret.quotes[i].provider # "openx402"
             /\ (up.galaksio_storage # None /\ PaymentChallenge(up.galaksio_storage[1]))
                   => /\ Status = 200
                      /\ \E i \in 1..Len(result.ret.quotes) :
                             result.ret.quotes[i].provider = "galaksio_storage"
    /\ (op = "get_store_quotes_v2" /\ args.fileSize = 100000000
           /\ args.provider \in {None, Some("openx402")})
          => Count("openx402", calls) = 1

\* /quote/store for one byte more than the ceiling, both providers wanted:
\* only galaksio_storage quotes
C6_Witness ==
    /\ op = "get_store_quotes_v2"
    /\ args.fileSize = 100000001
    /\ args.provider = None
    /\ Status = 200
    /\ Len(result.ret.quotes) = 1
    /\ result.ret.quotes[1].provider = "galaksio_storage"

\* the adapter was given one byte more than the ceiling
C6_WitnessAdapter ==
    /\ op = "get_openx402_storage_quote"
    /\ args.file_size_bytes = 100000001
    /\ Returned
    /\ Has(result.ret, "error")

\* C7: a compare_* call yields the "No quotes available" outcome exactly when
\* its get_*_quotes call returned no quote; any other returned outcome holds
\* at least one quote and a best_offer that is one of them.
C7_NoQuotesErrorIffNoSurvivors ==
    op \in CompareOps
        => /\ (Returned /\ Has(result.ret, "error"))
                 <=> (Survivors.exc = None /\ Len(Survivors.ret) = 0)
           /\ (Returned /\ Has(result.ret, "error"))
                 => result.ret.error = "No quotes available"
           /\ (Returned /\ ~Has(result.ret, "error"))
                 => /\ Has(result.ret, "quotes")
                    /\ Has(result.ret, "best_offer")
                    /\ Len(result.ret.quotes) >= 1
                    /\ \E i \in 1..Len(result.ret.quotes) :
                          result.ret.quotes[i] = result.ret.best_offer

\* every storage adapter was asked and none gave a quote
C7_Witness ==
    /\ op = "compare_storage"
    /\ Count("arweave", calls) = 1
    /\ Count("pinata", calls) = 1
    /\ Returned
    /\ Has(result.ret, "error")

\* the request is one that the endpoint recognises
WellFormed ==
    /\ op = "get_best_quote_v2" => Get(args, "operation", "") \in {"store", "run", "cache"}
    /\ op = "orchestrated_quote" => _infer_job_type(args) # "unknown"

\* no upstream that was asked answered: every request raised
NoProviderAnswered ==
    \A n \in UpstreamNames :
        /\ up[n] = None \/ up[n][1].t = "reqexc"
        /\ again[n] = None \/ again[n][1].t = "reqexc"

\* C8: at every quote endpoint, a request for which no provider yields a
\* usable quote is answered with HTTP 404 or 503 and a textual detail, never
\* with a success and never with another status.
C8_NoUsableQuoteIs404Or503 ==
    (op \in EndpointOps /\ WellFormed /\ NoProviderAnswered)
        => /\ result.exc = Some("HTTPException")
           /\ result.http.status_code \in {404, 503}
           /\ result.http.detail # ""

\* the Arweave adapter was called and failed: its request raised, its body
\* is not an integer, or the price feed raised
ArweaveFailed ==
    /\ up.arweave # None
    /\ \/ up.arweave[1].t = "reqexc"
       \/ up.arweave[1].body = None
       \/ (up.coingecko # None /\ up.coingecko[1].t = "reqexc")

PinataRequested ==
    \/ op = "compare_storage"
    \/ op = "get_storage_quotes"
          /\ (args.providers = None \/ InList("pinata", args.providers[1]))

\* the upstream of pinata answers 402 with a payment option
PinataGood(a) ==
    /\ a.t = "resp"
    /\ a.status = 402
    /\ a.body # None
    /\ Has(a.body[1], "accepts")
    /\ Len(a.body[1].accepts) >= 1

\* C9: a failure of one adapter never leaves get_*_quotes / compare_* as an
\* exception, and the call still asks the sibling adapter and returns its
\* quote if it has one.
C9_AdapterFailureContained ==
    /\ (op \in GetOps \cup CompareOps)
          => result.exc \notin {Some("ValueError"), Some("AttributeError")}
    /\ (op \in StorageOps /\ ArweaveFailed)
          => /\ Returned
             /\ PinataRequested
                   => /\ Count("pinata", calls) = 1
                      /\ PinataGood(up.pinata[1])
                            => \E i \in 1..Len(QuoteList) :
                                   QuoteList[i].provider = "pinata"

\* the price feed answered without a usable AR/USD rate
RateUnknown ==
    /\ up.coingecko # None
    /\ up.coingecko[1].t = "json"
    /\ (up.coingecko[1].usd = None \/ up.coingecko[1].usd = Some(0))

MixedPrices(quotes) ==
    /\ \E i \in 1..Len(quotes) : ~Known(quotes[i])
    /\ \E i \in 1..Len(quotes) : Known(quotes[i])

\* C10: with an unknown AR/USD rate the arweave quote has a null price_usd,
\* never zero; when a null-priced and a known-priced quote survive together,
\* compare_* and get_best_offer return and their best offer has a known price.
C10_NullPriceNeverBest ==
    /\ (op \in StorageOps /\ RateUnknown)
          => \A i \in 1..Len(QuoteList) :
                 QuoteList[i].provider = "arweave" => QuoteList[i].price_usd = None
    /\ (op \in CompareOps /\ Survivors.exc = None /\ MixedPrices(Survivors.ret))
          => (IsComparison /\ Known(result.ret.best_offer))
    /\ (op = "get_best_offer" /\ Union.exc = None /\ MixedPrices(Union.ret))
          => (Returned /\ result.ret # None /\ Known(result.ret[1]))

-----------------------------------------------------------------------------
(* The x402 challenge parser *)

\* the response that the current get_x402_quote call received
ProbeAnswered ==
    /\ op = "get_x402_quote"
    /\ up[args.url] # None
    /\ up[args.url][1].t = "resp"

ProbeResponse == up[args.url][1]

\* the first entry of "accepts" of a payment challenge
FirstAccepts(a) == a.body[1].accepts[1]

\* C12: given a response whose status is not 402, the parser returns a
\* fragment with price_usd 0.0, free true and the note that no payment is
\* required; a 402 response never yields a fragment with the free flag.
C12_Non402IsFreeFragment ==
    ProbeAnswered =>
        /\ ProbeResponse.status # 402 =>
              /\ Returned
              /\ result.ret # None
              /\ result.ret[1].price_usd = Some(0)
              /\ Get(result.ret[1], "free", FALSE) = TRUE
              /\ Get(result.ret[1].metadata, "note", "") = "No payment required"
        /\ ProbeResponse.status = 402 =>
              /\ Returned
              /\ result.ret # None => ~Has(result.ret[1], "free")

\* a 200 OK was parsed
C12_Witness ==
    /\ ProbeAnswered
    /\ ProbeResponse.status = 200
    /\ result.ret # None
    /\ result.ret[1].free

\* C13: for a 402 response, price_usd is maxAmountRequired of the first entry
\* of accepts divided by 1,000,000 ("10000" yields 0.01).
C13_PriceIsAmountOverMillion ==
    (/\ ProbeAnswered
     /\ PaymentChallenge(ProbeResponse)
     /\ Has(FirstAccepts(ProbeResponse), "maxAmountRequired")) =>
        /\ Returned
        /\ result.ret # None
        /\ result.ret[1].price_usd # None
        /\ result.ret[1].price_usd[1] * UsdcDecimalsDivisor
              = FirstAccepts(ProbeResponse).maxAmountRequired * UsdScale

\* maxAmountRequired 10000 was parsed to 0.01 USD
C13_Witness ==
    /\ ProbeAnswered
    /\ PaymentChallenge(ProbeResponse)
    /\ Get(FirstAccepts(ProbeResponse), "maxAmountRequired", 0) = 10000
    /\ result.ret # None
    /\ result.ret[1].price_usd[1] * 100 = UsdScale

\* the fields of the fragment and the header / accepts key each is read from
PaymentFields == {<<"currency", "asset">>, <<"network", "network">>, <<"recipient", "payTo">>}

-----------------------------------------------------------------------------
(* Unavailable upstreams *)

\* the upstream did not serve the request: the request raised (network
\* error, timeout) or the status is neither 2xx nor 402
Unavailable(a) ==
    \/ a.t = "reqexc"
    \/ a.t = "resp" /\ a.status # 402 /\ a.status \notin 200..299

\* the operations that return a list of quotes, one per provider
ListingOps == GetOps \cup CompareOps \cup {"get_store_quotes_v2"}

\* C11: when an upstream is unavailable (network error, timeout, a status
\* that is neither 2xx nor 402), the adapter returns no result or an error
\* result and no quote of that provider appears in quotes.
C11_UnavailableUpstreamIsAbsent ==
    /\ (op = "get_x402_quote" /\ up[args.url] # None /\ Unavailable(up[args.url][1]))
         => Returned /\ result.ret = None
    /\ (op \in ListingOps /\ Returned)
         => \A n \in UpstreamNames :
                (up[n] # None /\ Unavailable(up[n][1]))
                    => \A i \in 1..Len(QuoteList) : QuoteList[i].provider # n

-----------------------------------------------------------------------------
(* get_*_quotes: which adapters are invoked, and what is returned *)

\* the providers that have an adapter
AdapterProviders == {"akash", "arweave", "pinata", "xcache"}

\* the providers that the current get_*_quotes call asks for
Requested(p) ==
    IF args.providers # None
    THEN \E i \in 1..Len(args.providers[1]) : args.providers[1][i] = p
    ELSE CASE op = "get_compute_quotes" -> p \in {"akash", "aws", "gcp", "azure"}
           [] op = "get_storage_quotes" -> p \in {"arweave", "pinata", "filecoin"}
           [] op = "get_cache_quotes" -> p = "xcache"

\* the adapter of p serves the category and the spec of the current call
Applicable(p) ==
    CASE p = "akash" -> op = "get_compute_quotes"
      [] p = "arweave" -> op = "get_storage_quotes" /\ args.spec.permanent
      [] p = "pinata" -> op = "get_storage_quotes"
      [] p = "xcache" -> op = "get_cache_quotes" /\ args.spec.operation = "create"

\* what the fetcher of p returned to the engine in the current call
AdapterResult(p) ==
    CASE p = "akash" -> get_akash_pricing(args.spec.cpu_cores, args.spec.memory_gb,
                                          args.spec.storage_gb, Replay(up)).ret
      [] p = "arweave" -> get_arweave_pricing(args.spec.size_gb, Replay(up)).ret
      [] p = "pinata" -> get_pinata_storage_quote(args.spec.size_gb, Replay(up)).ret
      [] p = "xcache" -> get_xcache_create_quote("us-east-1", Replay(up)).ret

\* the fetcher of p returned no result or an error
NoResult(p) ==
    IF p = "akash" THEN Falsy(AdapterResult(p))
    ELSE AdapterResult(p) = None \/ Has(AdapterResult(p)[1], "error")

\* the place of the first request to upstream n in the request log
FirstCall(n) == CHOOSE i \in 1..Len(calls) : calls[i] = n /\ \A j \in 1..(i - 1) : calls[j] # n

\* C15: a get_*_quotes call that returns invokes exactly the adapters that
\* are named in providers (all known ones when providers is omitted) and serve
\* the request, drops every adapter that returned no result or an error, and
\* returns the other quotes in the order of invocation, unsorted; every
\* returned quote is of a requested provider.
C15_OnlyRequestedInInvocationOrder ==
    (op \in GetOps /\ Returned) =>
        /\ \A p \in AdapterProviders :
              /\ Count(p, calls) = (IF Requested(p) /\ Applicable(p) THEN 1 ELSE 0)
              /\ (\E i \in 1..Len(result.ret) : result.ret[i].provider = p)
                    <=> (Count(p, calls) = 1 /\ ~NoResult(p))
        /\ Count("coingecko", calls) >= 1 => Count("arweave", calls) = 1
        /\ \A i \in 1..Len(result.ret) :
              /\ result.ret[i].provider \in AdapterProviders
              /\ Requested(result.ret[i].provider)
        /\ \A i, j \in 1..Len(result.ret) :
              i < j => FirstCall(result.ret[i].provider) < FirstCall(result.ret[j].provider)

\* pinata was named before arweave; the quotes come back in the order of
\* invocation, the dearer one first
C15_Witness ==
    /\ op = "get_storage_quotes"
    /\ args.providers = Some(<<"pinata", "arweave">>)
    /\ Returned
    /\ Len(result.ret) = 2
    /\ result.ret[1].provider = "arweave"
    /\ Known(result.ret[1]) /\ Known(result.ret[2])
    /\ result.ret[1].price_usd[1] > result.ret[2].price_usd[1]

\* the fetcher of p returned a fragment that carries no price
Unpriced(p) ==
    /\ ~NoResult(p)
    /\ IF p = "akash" THEN ~Has(AdapterResult(p)[1].fields, "akash")
       ELSE Get(AdapterResult(p)[1], "price_usd", None) = None

\* C16: a fragment that lacks a usable price is dropped by the engine: no
\* quote built from it (in particular none with a defaulted price of 0) is in
\* the result of get_*_quotes or compare_*.
C16_UnpricedFragmentDropped ==
    (op \in GetOps \cup CompareOps /\ Returned) =>
        \A p \in AdapterProviders :
            (Count(p, calls) = 1 /\ Unpriced(p))
                => \A i \in 1..Len(QuoteList) : QuoteList[i].provider # p

-----------------------------------------------------------------------------
(* Retries *)

EngineOps == GetOps \cup CompareOps \cup {"get_best_offer"}

\* C18: within one get_*_quotes / compare_* / get_best_offer call every
\* upstream is requested at most once: a failed request is never sent again.
C18_NoRetries ==
    op \in EngineOps => \A n \in UpstreamNames : Count(n, calls) <= 1

\* both storage upstreams failed and each was requested once
C18_Witness ==
    /\ op = "get_best_offer"
    /\ up.arweave = Some(ReqExc)
    /\ up.pinata = Some(ReqExc)
    /\ Count("arweave", calls) = 1
    /\ Count("pinata", calls) = 1

-----------------------------------------------------------------------------
(* The price breakdown of Galaksio Storage *)

\* the quotes of Galaksio Storage in the current outcome
GalaksioQuotes ==
    IF ~Returned THEN {}
    ELSE IF op = "get_galaksio_storage_quote" THEN {result.ret}
    ELSE IF op = "get_store_quotes_v2"
    THEN {result.ret.quotes[i] : i \in 1..Len(result.ret.quotes)}
    ELSE {}

\* C20: whenever the Galaksio Storage adapter reports a price breakdown,
\* base_fee_usd is 0.01 and, for every quoted total, storage_cost_usd is the
\* total minus the base fee, so that the two add up to the reported total.
C20_BreakdownAddsUp ==
    \A q \in GalaksioQuotes :
        Has(q, "price_breakdown") =>
            /\ q.price_breakdown.base_fee_usd * 100 = UsdScale
            /\ q.price_breakdown.total_usd # None =>
                  /\ q.price_breakdown.storage_cost_usd
                        = q.price_breakdown.total_usd[1] - q.price_breakdown.base_fee_usd
                  /\ q.price_breakdown.base_fee_usd + q.price_breakdown.storage_cost_usd
                        = q.price_breakdown.total_usd[1]

-----------------------------------------------------------------------------
(* Round trip of the JSON export *)

\* json.loads: the value that a sequence of tokens denotes.  Each operator
\* returns the value read and the tokens that follow it.
RECURSIVE ParseValue(_), ParseItems(_, _), ParseMembers(_, _, _)
ParseValue(toks) ==
    CASE Head(toks).t = "[" -> ParseItems(Tail(toks), <<>>)
      [] Head(toks).t = "{" -> ParseMembers(Tail(toks), <<>>, EmptyDict)
      [] OTHER -> [val |-> Head(toks), rest |-> Tail(toks)]

ParseItems(toks, items) ==
    IF Head(toks).t = "]" THEN [val |-> JArr(items), rest |-> Tail(toks)]
    ELSE The({ParseItems(r.rest, Append(items, r.val)) : r \in {ParseValue(toks)}})

ParseMembers(toks, keys, fields) ==
    IF Head(toks).t = "}" THEN [val |-> JObj(keys, fields), rest |-> Tail(toks)]
    ELSE The({ParseMembers(r.rest, Append(keys, Head(toks).s),
                           Put(fields, Head(toks).s, r.val))
              : r \in {ParseValue(Tail(toks))}})

json_loads(text) == ParseValue(text).val

\* a successful comparison was exported as JSON
ExportedJson ==
    /\ op = "export_comparison"
    /\ args.format = "json"
    /\ Has(args.comparison, "quotes")

\* C19: exporting a successful compare result as JSON and parsing the text
\* back gives quotes with the same providers in the same order and with the
\* same prices, and the same best_offer.
C19_JsonRoundTrip ==
    ExportedJson =>
        /\ Returned
        /\ LET parsed == json_loads(result.ret)
               quotes == args.comparison.quotes
           IN  /\ parsed.t = "obj"
               /\ parsed.fields.quotes.t = "arr"
               /\ Len(parsed.fields.quotes.items) = Len(quotes)
               /\ \A i \in 1..Len(quotes) :
                     /\ parsed.fields.quotes.items[i].fields.provider
                            = JStr(quotes[i].provider)
                     /\ parsed.fields.quotes.items[i].fields.price_usd
                            = (IF quotes[i].price_usd = None THEN JNull
                               ELSE JNum(quotes[i].price_usd[1]))
               /\ parsed.fields.best_offer.fields.provider
                      = JStr(args.comparison.best_offer.provider)
               /\ parsed.fields.best_offer.fields.price_usd
                      = (IF args.comparison.best_offer.price_usd = None THEN JNull
                         ELSE JNum(args.comparison.best_offer.price_usd[1]))

\* a comparison of two providers with different prices was exported
C19_Witness ==
    /\ ExportedJson
    /\ Len(args.comparison.quotes) = 2
    /\ args.comparison.quotes[1].price_usd # args.comparison.quotes[2].price_usd
    /\ json_loads(result.ret).fields.quotes.items[2].fields.provider
          = JStr(args.comparison.quotes[2].provider)

-----------------------------------------------------------------------------
(* Timeouts *)

\* C17: every upstream request is bounded by a timeout, so an engine call
\* that waits for an upstream, silent or not, eventually comes back.
C17_SilentUpstreamCallReturns == (pc = "waiting") ~> (pc = "done")

-----------------------------------------------------------------------------
(* The response of /quote/store *)

\* /quote/store answered 200
StoreResponse == op = "get_store_quotes_v2" /\ Returned

\* no quote of the list is cheaper than q
Cheapest(q, quotes) ==
    \A i \in 1..Len(quotes) :
        Known(quotes[i]) /\ Known(q) => ~(quotes[i].price_usd[1] < q.price_usd[1])

\* C24: whenever at least one storage provider yields a quote, /quote/store
\* returns its quotes sorted by price, cheapest first, and best is the
\* cheapest quote of the list.
C24_StoreQuotesSortedCheapestFirst ==
    StoreResponse =>
        /\ SortedAscending(result.ret.quotes)
        /\ result.ret.best # None
        /\ Cheapest(result.ret.best[1], result.ret.quotes)

\* C29: every successful /quote/store response has count equal to the number
\* of returned quotes and at least 1, a best that is not null and is one of
\* the returned quotes, no quote with an error field, and no quote cheaper
\* than best.
C29_StoreResponseWellFormed ==
    StoreResponse =>
        /\ result.ret.count = Len(result.ret.quotes)
        /\ result.ret.count >= 1
        /\ result.ret.best # None
        /\ \E i \in 1..Len(result.ret.quotes) : result.ret.quotes[i] = result.ret.best[1]
        /\ \A i \in 1..Len(result.ret.quotes) : ~Has(result.ret.quotes[i], "error")
        /\ Cheapest(result.ret.best[1], result.ret.quotes)

\* two quotes are returned and the second, the cheaper one, is best
C29_Witness ==
    /\ StoreResponse
    /\ Len(result.ret.quotes) = 2
    /\ result.ret.best = Some(result.ret.quotes[2])
    /\ result.ret.quotes[2].price_usd[1] < result.ret.quotes[1].price_usd[1]

-----------------------------------------------------------------------------
(* The orchestrated endpoint *)

\* the parameters of each category, as the endpoint documents them
ComputeParameters == {"cpu_cores", "memory_gb", "storage_gb", "gpu"}
StorageParameters == {"size_gb", "duration_days", "permanent"}
CacheParameters == {"size_mb", "cache_operation", "ttl_hours"}

\* the request supplies at least one of the parameters
Supplies(request, parameters) == \E k \in parameters : request[k] # None

\* the categories for which the request supplies a parameter
Detected(request) ==
    {c \in {"compute", "storage", "cache"} :
        Supplies(request, CASE c = "compute" -> ComputeParameters
                            [] c = "storage" -> StorageParameters
                            [] c = "cache" -> CacheParameters)}

OrchestratedResponse == op = "orchestrated_quote" /\ Returned

\* C26: /quote classifies a request by the categories of the parameters it
\* supplies: one category gives that category, two or more give hybrid; only
\* a request without any category parameter is rejected with 400; every
\* successful response carries the inferred job_type.
C26_JobTypeInferredFromParameters ==
    op = "orchestrated_quote" =>
        /\ (Status = 400) <=> (Detected(args) = {})
        /\ Returned =>
              /\ Has(result.ret, "job_type")
              /\ IF Cardinality(Detected(args)) > 1
                 THEN result.ret.job_type = "hybrid"
                 ELSE result.ret.job_type \in Detected(args)

\* the category whose adapter sends the requests to upstream n
CategoryOf(n) ==
    CASE n = "akash" -> "compute"
      [] n \in {"arweave", "coingecko", "pinata"} -> "storage"
      [] n = "xcache" -> "cache"

\* C27: a hybrid request compares exactly the categories for which it
\* supplies a parameter: no adapter of another category is invoked, no other
\* category is reported, and every detected category is reported.
C27_HybridComparesDetectedOnly ==
    (OrchestratedResponse /\ result.ret.job_type = "hybrid") =>
        /\ \A i \in 1..Len(calls) : CategoryOf(calls[i]) \in Detected(args)
        /\ \A c \in {"compute", "storage", "cache"} :
              Has(result.ret, c) <=> c \in Detected(args)

\* the quotes listed in the comparison sections of a hybrid response
SectionQuotes ==
    LET Listed(c) == IF Has(result.ret, c) /\ Has(result.ret[c], "quotes")
                     THEN {result.ret[c].quotes[i] : i \in 1..Len(result.ret[c].quotes)}
                     ELSE {}
    IN  Listed("compute") \cup Listed("storage") \cup Listed("cache")

\* C28: overall_best_offer of a hybrid response is one of the quotes listed
\* in the comparison sections of the response, and none of them is cheaper,
\* whatever the upstreams answer to the first and to the second probe.
C28_OverallBestIsListedMinimum ==
    (OrchestratedResponse /\ Has(result.ret, "overall_best_offer")) =>
        /\ result.ret.overall_best_offer \in SectionQuotes
        /\ \A q \in SectionQuotes :
              Known(q) /\ Known(result.ret.overall_best_offer)
                  => result.ret.overall_best_offer.price_usd[1] <= q.price_usd[1]

-----------------------------------------------------------------------------
(* One category per comparison *)

\* the category of a get_*_quotes or compare_* call
CallCategory ==
    CASE op \in {"get_compute_quotes", "compare_compute"} -> "compute"
      [] op \in {"get_storage_quotes", "compare_storage"} -> "storage"
      [] op \in {"get_cache_quotes", "compare_cache"} -> "cache"

\* every quote that the outcome of the current call carries
ReturnedQuotes ==
    IF ~Returned THEN {}
    ELSE IF op \in GetOps THEN {result.ret[i] : i \in 1..Len(result.ret)}
    ELSE IF op \in CompareOps
    THEN IF Has(result.ret, "quotes")
         THEN {result.ret.quotes[i] : i \in 1..Len(result.ret.quotes)}
                  \cup {result.ret.best_offer}
         ELSE {}
    ELSE IF op = "get_best_offer"
    THEN {result.ret[i] : i \in 1..Len(result.ret)}
    ELSE IF op = "orchestrated_quote"
    THEN SectionQuotes
             \cup (IF Has(result.ret, "quotes")
                   THEN {result.ret.quotes[i] : i \in 1..Len(result.ret.quotes)}
                            \cup {result.ret.best_offer}
                   ELSE {})
             \cup (IF Has(result.ret, "quote") THEN {result.ret.quote} ELSE {})
             \cup (IF Has(result.ret, "overall_best_offer")
                   THEN {result.ret.overall_best_offer} ELSE {})
    ELSE {}

\* C21: every quote of a compute / storage / cache get_quotes or compare call
\* has the category of the call; no quote has the category "hybrid"; the
\* sections of a hybrid response are the outcomes of the per-category
\* comparisons, each run on its own spec.
C21_OneCategoryPerComparison ==
    /\ op \in GetOps \cup CompareOps
          => \A q \in ReturnedQuotes : q.category = CallCategory
    /\ \A q \in ReturnedQuotes : q.category # "hybrid"
    /\ (OrchestratedResponse /\ result.ret.job_type = "hybrid")
          => /\ result.ret.compute
                   = compare_compute(orchestrated_compute_spec(args), Replay(up)).ret
             /\ result.ret.storage
                   = compare_storage(orchestrated_storage_spec(args), Replay(up)).ret
             /\ Has(result.ret, "cache")
                   => result.ret.cache
                        = compare_cache(orchestrated_cache_spec(args), Replay(up)).ret
             /\ DOMAIN result.ret \subseteq
                   {"job_type", "compute", "storage", "cache", "overall_best_offer"}

\* a hybrid response with compute, storage and cache quotes, each in the
\* section of its category
C21_Witness ==
    /\ OrchestratedResponse
    /\ result.ret.job_type = "hybrid"
    /\ Has(result.ret, "cache")
    /\ \A c \in {"compute", "storage", "cache"} :
          /\ Has(result.ret[c], "quotes")
          /\ \A i \in 1..Len(result.ret[c].quotes) : result.ret[c].quotes[i].category = c
    /\ Len(result.ret.storage.quotes) = 2

-----------------------------------------------------------------------------
(* The engine is read-only after initialization *)

\* the methods of the engine whose outcome is recomputed below
EngineMethods == GetOps \cup CompareOps

-----------------------------------------------------------------------------
(* Malformed input *)

\* a numeric field of the compute request is below its declared bound
OutOfBounds(request) ==
    \/ 10 * request.cpu_cores < 1
    \/ 10 * request.memory_gb < 1
    \/ request.storage_gb < 0

\* C25: a compute quote request with a numeric field below its declared bound
\* is answered 422 before any adapter is invoked: no upstream request is made
\* and no quote is returned.
C25_MalformedComputeRequestIs422 ==
    (op = "compute_quote" /\ OutOfBounds(args)) =>
        /\ Status = 422
        /\ calls = <<>>
        /\ up = NotAsked
        /\ result.ret = None

\* the request of the test: cpu_cores -1
C25_Witness ==
    /\ op = "compute_quote"
    /\ args.cpu_cores = -1
    /\ Status = 422

-----------------------------------------------------------------------------
(* The command line client *)

\* the quote server has answered the command with a quote
QuoteObtained ==
    /\ cli.quote_response # None
    /\ IF op = "store"
       THEN /\ Has(cli.quote_response[1], "best")
            /\ cli.quote_response[1].best # None
       ELSE Has(cli.quote_response[1], "price_usd")

\* C23: in the commands run, store and cache the quote call precedes the
\* broker call and the broker is called only once a quote has been obtained;
\* when the quote call returns an error the broker is never called and the
\* command aborts.
C23_BrokerOnlyAfterQuote ==
    op \in {"run", "store", "cache"} =>
        /\ \A i \in 1..Len(calls) :
              calls[i] # "quote_server"
                  => /\ \E j \in 1..(i - 1) : calls[j] = "quote_server"
                     /\ QuoteObtained
        /\ (cli.quote_response # None /\ Has(cli.quote_response[1], "error"))
              => /\ calls = <<"quote_server">>
                 /\ pc = "done"
                 /\ result.exc = Some("Abort")

\* the response is a 402 challenge
Is402(response) == response.t = "resp" /\ response.status = 402

\* what _execute_run returns for the response that ended its loop
BodyOf(response) ==
    IF response.t = "reqexc" \/ response.body = None
    THEN [error |-> "exception", error_type |-> "Exception"]
    ELSE response.body[1]

\* at most 3 posts to the paid resource; every response before the last one
\* was a 402; the loop goes on only after a 402 and before the third; what is
\* returned is the body of the last response, which is a 402 only if it is
\* the third
PaymentLoopBounded ==
    /\ Len(cli.responses) <= 3
    /\ Len(SelectSeq(calls, LAMBDA n : n = "resource")) = Len(cli.responses)
    /\ \A i \in 1..(Len(cli.responses) - 1) : Is402(cli.responses[i])
    /\ pc = "paying"
          => /\ Len(cli.responses) < 3
             /\ \A i \in 1..Len(cli.responses) : Is402(cli.responses[i])
    /\ (pc = "done" /\ Len(cli.responses) > 0)
          => /\ result.exc = None
             /\ result.ret = BodyOf(cli.responses[Len(cli.responses)])
             /\ Is402(cli.responses[Len(cli.responses)]) => Len(cli.responses) = 3

\* C30: the payment loop of _execute_run always terminates: it posts to the
\* paid resource at most 3 times, returns the first response that is not a
\* 402 without another attempt, returns the body of the last 402 after 3
\* consecutive 402 responses, and ends with an error result on an exception.
C30_PaymentLoopTerminates ==
    /\ [](PaymentLoopBounded)
    /\ (pc = "paying") ~> (pc = "done")

\* three 402 responses in a row, the last one with another body than the
\* second: the body of the last is returned
C30_Witness ==
    /\ pc = "done"
    /\ Len(cli.responses) = 3
    /\ \A i \in 1..3 : Is402(cli.responses[i])
    /\ cli.responses[3].body # None
    /\ cli.responses[3].body # cli.responses[2].body
    /\ result.ret = cli.responses[3].body[1]

=============================================================================
